---- MODULE Spec2Model ----
(***************************************************************************)
(* VoicePay Arc: the voice-command-to-transaction pipeline.                *)
(*                                                                         *)
(*   SpecVoice   the useVoice hook (src/lib/hooks/useVoice.ts): recording  *)
(*               sessions, the recorder's onstop handler, the              *)
(*               transcription / intent pipeline, cancel, retry, timers.   *)
(*   SpecVoiceRetry  the same hook with autoRetry on, one recording.       *)
(*   SpecPage    the page (src/pages/index.tsx): delivered commands, the   *)
(*               confirmation modal, handleSendTransaction.                *)
(*   SpecWallet  the useWallet hook: connect, disconnect, refreshBalance,  *)
(*               sendTransaction.                                          *)
(*                                                                         *)
(* React state is held in the variables state, transcript, intent, error,  *)
(* recordingTime and commandHistory.  A callback created by useCallback    *)
(* closes over the values of the render that created it; `view` is the     *)
(* snapshot of the last render, and Render is React's re-render step.      *)
(* Refs (useRef) are read and written directly.  A session or run is       *)
(* named by a number; 0 stands for null.                                   *)
(*                                                                         *)
(* Time is counted in whole seconds: one Tick of a session's interval      *)
(* timer is one elapsed second of that session.                            *)
(***************************************************************************)
EXTENDS Integers, Sequences, FiniteSets, TLC

\* ---- bounds of the model ----
MaxSessions == 2
MaxRuns == 1
MaxTicks == 1
MaxRetries == 1
MaxHistoryRuns == 11
MaxInFlight == 1
MaxKeywords == 3
MaxTail == 4
MaxRetryCount == 3
MaxIntervalTicks == 1
MaxRecorderStarts == 3
MaxLimit == 2
MaxWindow == 2
MaxNow == 6
MaxTx == 2
MaxCmds == 2
MaxLoads == 1
InitBalance == 1000

\* ---- program constants ----
minRecordingDuration == 1000
HistoryCap == 10
MinAmount == 10
MaxAmount == 10000000
SafetyBuffer == 10
maxDecimals == 6
autoRefreshInterval == 30000

maxRecordingDuration == MaxTicks * 1000
maxRetries == MaxRetries

Sessions == 1..MaxSessions
Runs == 1..(IF MaxHistoryRuns > MaxRuns + MaxRetries
              THEN MaxHistoryRuns ELSE MaxRuns + MaxRetries)

MicErrors == {"NotAllowedError", "NotFoundError", "NotReadableError", "Other"}

VARIABLES
    \* React state of useVoice
    state, transcript, intent, error, recordingTime, commandHistory,
    \* the values the callbacks of the last render close over
    view,
    mounted,
    \* options
    autoRetry,
    \* how many startRecording calls and processAudioBlob invocations a
    \* behaviour may make
    budget,
    \* refs
    mediaRecorderRef, streamRef, audioContextRef, analyserRef,
    animationFrameRef, recordingTimerRef, retryCountRef, lastAudioBlobRef,
    \* the objects a startRecording call creates, per call
    sess, nSess,
    \* processAudioBlob invocations
    run, nRuns,
    \* pending setTimeout callbacks
    idleTimers, retryTimers,
    \* observation: the calls of onSuccess and onError, the sessions whose
    \* onstop handler passed their sample to processAudioBlob, and those it
    \* rejected as too short
    onSuccessCalls, onErrorCalls, pipelineFor, tooShortFor,
    \* observation: the entries setCommandHistory added since the last
    \* clearHistory call, oldest first
    historyLog,
    \* TRUE from a cancelRecording call until the next call of the hook's API
    cancelled

reactVars == <<state, transcript, intent, error, recordingTime, commandHistory>>
refVars == <<mediaRecorderRef, streamRef, audioContextRef, analyserRef,
             animationFrameRef, recordingTimerRef>>
blobVars == <<retryCountRef, lastAudioBlobRef>>
optVars == <<autoRetry, budget>>
obsVars == <<onSuccessCalls, onErrorCalls, pipelineFor, tooShortFor>>
timerVars == <<idleTimers, retryTimers>>

voiceVars == <<state, transcript, intent, error, recordingTime, commandHistory,
               view, mounted, autoRetry, budget,
               mediaRecorderRef, streamRef, audioContextRef, analyserRef,
               animationFrameRef, recordingTimerRef, retryCountRef, lastAudioBlobRef,
               sess, nSess, run, nRuns, idleTimers, retryTimers,
               onSuccessCalls, onErrorCalls, pipelineFor, tooShortFor, historyLog,
               cancelled>>

\* ---- the transaction side: the page (src/pages/index.tsx), the useWallet
\* ---- hook and the ledger both of them reach through ArcService ----
VARIABLES
    \* React state of the page: arcService, walletAddress, balance,
    \* isLoading.transaction, error, success, currentCommand,
    \* showConfirmation, transactions; and the loadBalance calls in flight
    page,
    \* React state and refs of useWallet: isConnected, isConnecting, address,
    \* balance, error, arcServiceRef; and the refreshBalance calls in flight
    wallet,
    \* the USDC balance of the wallet's account on the ledger
    chainBalance,
    \* the calls of handleSendTransaction and of useWallet.sendTransaction
    tx, nTx,
    \* the intents the voice recorder delivered, and what the page did with each
    cmd, nCmd,
    \* observation: the commands the user confirmed in the modal, those the
    \* user cancelled there, and the number of submissions the user started
    confirmed, cancelledCmds, userSubmits

ledgerVars == <<chainBalance, tx, nTx>>
cmdVars == <<cmd, nCmd, confirmed, cancelledCmds, userSubmits>>
txVars == <<page, wallet, chainBalance, tx, nTx, cmd, nCmd, confirmed,
            cancelledCmds, userSubmits>>

\* ---- the intent side: a call of validatePaymentIntent and a request to the
\* ---- handler of /api/nlp ----
VARIABLES
    \* a call of validatePaymentIntent: its argument and what it returned
    validation,
    \* a request to /api/nlp: where the handler is, the mode, the sanitized
    \* text, what became of the language-model call, the intent extracted and
    \* the response
    nlp

nlpVars == <<validation, nlp>>

\* ---- the utilities: a call of retryWithBackoff (src/lib/utils.ts) and a
\* ---- call of validateSufficientBalance ----
VARIABLES
    \* a call of retryWithBackoff: where it is, its arguments, the loop
    \* variable i, lastError, the calls of fn made, the delays slept and the
    \* result
    retry,
    \* a call of validateSufficientBalance: its arguments and what it returned
    sufficiency,
    \* the VoiceRecorder component (src/components/voice/VoiceRecorder.tsx):
    \* its state, where its startRecording call is, recordingTime and the
    \* value processAudio captured, the audio resources, the last message
    \* given to onError and the pending reset timers
    voiceRecorder,
    \* the /api/voice handler: for every run of the hook the response the
    \* handler gave to its request, with the calls of the speech service made
    voiceApi,
    \* the rate limiter: the clock, the arguments its callers use, the
    \* module-level rateLimitMap, the result of the last call, and for every
    \* identifier the calls allowed in the window of its last allowed call
    rateLimit

utilVars == <<retry, sufficiency, voiceRecorder, voiceApi, rateLimit>>

vars == <<voiceVars, txVars, nlpVars, utilVars>>

\* A startRecording call that has not been made yet.
NoSession == [pc |-> "none", capRecordingTime |-> 0, capTranscript |-> 0,
              stream |-> FALSE, ctx |-> FALSE, raf |-> FALSE, timer |-> FALSE,
              recorder |-> "none", onstop |-> FALSE, time |-> 0,
              autoStop |-> FALSE, elapsed |-> -1]

NoRun == [pc |-> "none", blob |-> 0, capTranscript |-> 0, text |-> 0]

\* A setter of React state: a no-op once the component is unmounted.
SetState(old, new) == IF mounted THEN new ELSE old

InitHook ==
    /\ state = "idle"
    /\ transcript = 0
    /\ intent = 0
    /\ error = "none"
    /\ recordingTime = 0
    /\ commandHistory = <<>>
    /\ view = [state |-> "idle", recordingTime |-> 0, transcript |-> 0]
    /\ mounted = TRUE
    /\ mediaRecorderRef = 0
    /\ streamRef = 0
    /\ audioContextRef = 0
    /\ analyserRef = 0
    /\ animationFrameRef = 0
    /\ recordingTimerRef = 0
    /\ retryCountRef = 0
    /\ lastAudioBlobRef = 0
    /\ sess = [s \in Sessions |-> NoSession]
    /\ nSess = 0
    /\ run = [r \in Runs |-> NoRun]
    /\ nRuns = 0
    /\ idleTimers = 0
    /\ retryTimers = [t \in 0..MaxSessions |-> 0]
    /\ onSuccessCalls = 0
    /\ onErrorCalls = 0
    /\ pipelineFor = {}
    /\ tooShortFor = {}
    /\ historyLog = <<>>
    /\ cancelled = FALSE


\* The values a render at the current state hands to the callbacks it creates.
Snapshot == [state |-> state, recordingTime |-> recordingTime, transcript |-> transcript]

\* React has re-rendered since the last state update.
Rendered == ~mounted \/ view = Snapshot

\* React re-renders when the task that called the hook's API ends: the
\* callbacks handed out from now on close over the current state.  Calls made
\* in the same task before it use the callbacks of the previous render.
AfterRender ==
    IF mounted
      THEN [state |-> state', recordingTime |-> recordingTime', transcript |-> transcript']
      ELSE view

Render ==
    /\ mounted
    /\ view # Snapshot
    /\ view' = Snapshot
    /\ UNCHANGED <<reactVars, historyLog, mounted, optVars, txVars, nlpVars, utilVars, refVars, blobVars, sess, nSess,
                   run, nRuns, timerVars, obsVars, cancelled>>

\* cleanupResources: releases what the refs point to, and clears the refs.
\* S is the per-call objects as the calling handler leaves them.
CleanedSess(S) ==
    [s \in Sessions |->
        [S[s] EXCEPT !.stream = IF s = streamRef THEN FALSE ELSE @,
                     !.ctx = IF s = audioContextRef THEN FALSE ELSE @,
                     !.raf = IF s = animationFrameRef THEN FALSE ELSE @,
                     !.timer = IF s = recordingTimerRef THEN FALSE ELSE @]]

cleanupResources(S) ==
    /\ sess' = CleanedSess(S)
    /\ streamRef' = 0
    /\ audioContextRef' = 0
    /\ animationFrameRef' = 0
    /\ recordingTimerRef' = 0
    /\ mediaRecorderRef' = 0
    /\ analyserRef' = 0

\* The guard of startRecording, on the state its closure captured.
CanStart(st) == st \in {"idle", "error"}

\* startRecording, up to the await of getUserMedia.
StartRecordingBody ==
    /\ CanStart(view.state)
    /\ nSess < budget.sessions
    /\ nSess' = nSess + 1
    /\ state' = SetState(state, "requesting")
    /\ error' = SetState(error, "none")
    /\ transcript' = SetState(transcript, 0)
    /\ intent' = SetState(intent, 0)
    /\ recordingTime' = SetState(recordingTime, 0)
    /\ sess' = [sess EXCEPT ![nSess + 1] =
                  [NoSession EXCEPT !.pc = "acquiring",
                                    !.capRecordingTime = view.recordingTime,
                                    !.capTranscript = view.transcript]]
    /\ UNCHANGED <<commandHistory, historyLog, refVars, blobVars, run, nRuns, timerVars, obsVars>>

\* A call of startRecording.  With the captured state neither idle nor error
\* it returns at once.
StartRecording ==
    /\ mounted
    /\ cancelled' = FALSE
    /\ IF CanStart(view.state)
         THEN StartRecordingBody
         ELSE UNCHANGED <<reactVars, historyLog, refVars, blobVars, sess, nSess, run, nRuns,
                          timerVars, obsVars>>
    /\ UNCHANGED <<view, mounted, optVars, txVars, nlpVars, utilVars>>

\* getUserMedia resolves: the rest of the try block of startRecording.
MicGranted(s) ==
    /\ Rendered
    /\ sess[s].pc = "acquiring"
    /\ sess' = [sess EXCEPT ![s] = [@ EXCEPT !.pc = "started",
                                             !.stream = TRUE,
                                             !.ctx = TRUE,
                                             !.raf = TRUE,
                                             !.recorder = "recording",
                                             !.timer = TRUE,
                                             !.time = 0,
                                             !.autoStop = TRUE]]
    /\ streamRef' = s
    /\ audioContextRef' = s
    /\ analyserRef' = s
    /\ animationFrameRef' = s
    /\ mediaRecorderRef' = s
    /\ recordingTimerRef' = s
    /\ state' = SetState(state, "listening")
    /\ UNCHANGED <<transcript, intent, error, recordingTime, commandHistory, historyLog,
                   mounted, optVars, txVars, nlpVars, utilVars, blobVars, nSess, run, nRuns,
                   timerVars, obsVars, cancelled>>
    /\ view' = AfterRender

\* The message startRecording's catch block chooses for a rejection.
MicErrorMessage(name) ==
    CASE name = "NotAllowedError" -> "micDenied"
      [] name = "NotFoundError" -> "micNotFound"
      [] name = "NotReadableError" -> "micBusy"
      [] OTHER -> "startFailed"

\* getUserMedia rejects: the catch block of startRecording.
MicRejected(s, name) ==
    /\ Rendered
    /\ sess[s].pc = "acquiring"
    /\ error' = SetState(error, MicErrorMessage(name))
    /\ state' = SetState(state, "error")
    /\ onErrorCalls' = onErrorCalls + 1
    /\ cleanupResources([sess EXCEPT ![s] = [@ EXCEPT !.pc = "failed",
                                                      !.capRecordingTime = 0,
                                                      !.capTranscript = 0]])
    /\ idleTimers' = idleTimers + 1
    /\ UNCHANGED <<transcript, intent, recordingTime, commandHistory, historyLog, mounted,
                   optVars, txVars, nlpVars, utilVars, blobVars, nSess, run, nRuns, retryTimers,
                   onSuccessCalls, pipelineFor, tooShortFor, cancelled>>
    /\ view' = AfterRender

\* One firing of the interval timer a session armed: time++, setRecordingTime(time).
Tick(s) ==
    /\ Rendered
    /\ sess[s].timer
    /\ sess[s].time < MaxTicks
    /\ sess' = [sess EXCEPT ![s].time = @ + 1]
    /\ recordingTime' = SetState(recordingTime, sess[s].time + 1)
    /\ UNCHANGED <<state, transcript, intent, error, commandHistory, historyLog, mounted,
                   optVars, txVars, nlpVars, utilVars, refVars, blobVars, nSess, run, nRuns, timerVars,
                   obsVars, cancelled>>
    /\ view' = AfterRender

\* One animation frame of analyzeAudioLevel for the loop a session started:
\* it returns when the analyser is gone, and reschedules itself otherwise.
Frame(s) ==
    /\ Rendered
    /\ sess[s].raf
    /\ \/ /\ analyserRef = 0
          /\ sess' = [sess EXCEPT ![s].raf = FALSE]
          /\ animationFrameRef' = animationFrameRef
       \/ /\ analyserRef # 0
          /\ animationFrameRef # s
          /\ animationFrameRef' = s
          /\ sess' = sess
    /\ UNCHANGED <<reactVars, historyLog, view, mounted, optVars, txVars, nlpVars, utilVars, mediaRecorderRef, streamRef,
                   audioContextRef, analyserRef, recordingTimerRef, blobVars, nSess,
                   run, nRuns, timerVars, obsVars, cancelled>>

\* stopRecording, on the per-call objects S: stops the recorder the ref points
\* to when it is recording (the browser then fires its onstop), clears the
\* interval timer and cancels the animation frame the refs point to.
StoppedSess(S) ==
    [s \in Sessions |->
        LET stops == s = mediaRecorderRef /\ S[s].recorder = "recording"
        IN [S[s] EXCEPT !.recorder = IF stops THEN "inactive" ELSE @,
                        !.onstop = IF stops THEN TRUE ELSE @,
                        !.elapsed = IF stops THEN S[s].time ELSE @,
                        !.timer = IF s = recordingTimerRef THEN FALSE ELSE @,
                        !.raf = IF s = animationFrameRef THEN FALSE ELSE @]]

stopRecording(S) ==
    /\ sess' = StoppedSess(S)
    /\ recordingTimerRef' = 0
    /\ animationFrameRef' = 0
    /\ UNCHANGED <<mediaRecorderRef, streamRef, audioContextRef, analyserRef>>

\* A call of stopRecording by the user of the hook.
StopRecording ==
    /\ mounted
    /\ stopRecording(sess)
    /\ cancelled' = FALSE
    /\ UNCHANGED <<reactVars, historyLog, view, mounted, optVars, txVars, nlpVars, utilVars, blobVars, nSess, run, nRuns,
                   timerVars, obsVars>>

\* The auto-stop timeout a session armed fires, maxRecordingDuration after the
\* session started recording.
AutoStopFire(s) ==
    /\ Rendered
    /\ sess[s].autoStop
    /\ sess[s].time * 1000 >= maxRecordingDuration \/ ~sess[s].timer
    /\ LET S == [sess EXCEPT ![s].autoStop = FALSE]
       IN IF sess[s].recorder = "recording" /\ mediaRecorderRef = s
            THEN stopRecording(S)
            ELSE sess' = S /\ UNCHANGED refVars
    /\ UNCHANGED <<reactVars, historyLog, view, mounted, optVars, txVars, nlpVars, utilVars, blobVars, nSess, run, nRuns,
                   timerVars, obsVars, cancelled>>

\* The browser stops a recorder whose stream's tracks have all ended, and
\* fires its onstop.
TracksEnded(s) ==
    /\ Rendered
    /\ sess[s].recorder = "recording"
    /\ ~sess[s].stream
    /\ sess' = [sess EXCEPT ![s] = [@ EXCEPT !.recorder = "inactive",
                                             !.onstop = TRUE,
                                             !.elapsed = sess[s].time]]
    /\ UNCHANGED <<reactVars, historyLog, view, mounted, optVars, txVars, nlpVars, utilVars, refVars, blobVars, nSess,
                   run, nRuns, timerVars, obsVars, cancelled>>

Min(a, b) == IF a < b THEN a ELSE b

\* [entry, ...prev] with the slice left out.
PrependUncapped(entry, prev) == <<entry>> \o prev

\* [entry, ...prev].slice(0, 10)
Prepend(entry, prev) == SubSeq(<<entry>> \o prev, 1, Min(Len(prev) + 1, HistoryCap))

\* processAudioBlob, up to the await of the /api/voice request.  capTr is the
\* transcript the calling closure captured.
processAudioBlobStart(blob, capTr) ==
    /\ nRuns < budget.runs
    /\ Cardinality({r \in Runs : run[r].pc \in {"voice", "nlp"}}) < budget.inflight
    /\ nRuns' = nRuns + 1
    /\ run' = [run EXCEPT ![nRuns + 1] =
                 [pc |-> "voice", blob |-> blob, capTranscript |-> capTr, text |-> 0]]
    /\ state' = SetState(state, "processing")
    /\ error' = SetState(error, "none")

\* The minimum-duration test of the recorder's onstop handler.
TooShort(rt) == rt * 1000 < minRecordingDuration

\* mediaRecorder.onstop of the recorder a session created.
OnStop(s) ==
    /\ Rendered
    /\ sess[s].onstop
    /\ lastAudioBlobRef' = s
    /\ LET S == [sess EXCEPT ![s] = [@ EXCEPT !.onstop = FALSE,
                                              !.pc = "stopped",
                                              !.capRecordingTime = 0,
                                              !.capTranscript = 0]]
       IN IF TooShort(sess[s].capRecordingTime)
            THEN /\ error' = SetState(error, "tooShort")
                 /\ state' = SetState(state, "error")
                 /\ cleanupResources(S)
                 /\ idleTimers' = idleTimers + 1
                 /\ tooShortFor' = tooShortFor \cup {s}
                 /\ UNCHANGED <<run, nRuns, pipelineFor>>
            ELSE /\ processAudioBlobStart(s, sess[s].capTranscript)
                 /\ cleanupResources(S)
                 /\ pipelineFor' = pipelineFor \cup {s}
                 /\ UNCHANGED <<idleTimers, tooShortFor>>
    /\ UNCHANGED <<transcript, intent, recordingTime, commandHistory, historyLog, mounted,
                   optVars, txVars, nlpVars, utilVars, retryCountRef, nSess, retryTimers, onSuccessCalls,
                   onErrorCalls, cancelled>>
    /\ view' = AfterRender

DoneRun == [NoRun EXCEPT !.pc = "done"]

\* The catch block of processAudioBlob, had it not tested retryCountRef.
PipelineFailAlwaysRetries(r, msg) ==
    /\ error' = SetState(error, msg)
    /\ state' = SetState(state, "error")
    /\ LET failedCommand == [id |-> r, transcript |-> run[r].capTranscript,
                              intent |-> 0, success |-> FALSE]
       IN IF run[r].capTranscript # 0
            THEN /\ commandHistory' =
                       SetState(commandHistory, Prepend(failedCommand, commandHistory))
                 /\ historyLog' = SetState(historyLog, Append(historyLog, failedCommand))
            ELSE UNCHANGED <<commandHistory, historyLog>>
    /\ onErrorCalls' = onErrorCalls + 1
    /\ IF autoRetry
         THEN /\ retryCountRef' = retryCountRef + 1
              /\ retryTimers' = [retryTimers EXCEPT ![run[r].capTranscript] = @ + 1]
              /\ UNCHANGED idleTimers
         ELSE /\ idleTimers' = idleTimers + 1
              /\ UNCHANGED <<retryCountRef, retryTimers>>
    /\ run' = [run EXCEPT ![r] = DoneRun]
    /\ UNCHANGED <<intent, recordingTime, mounted, optVars, txVars, nlpVars, utilVars, refVars,
                   lastAudioBlobRef, sess, nSess, nRuns, onSuccessCalls, pipelineFor,
                   tooShortFor, cancelled>>

\* The catch block of processAudioBlob.
PipelineFail(r, msg) ==
    /\ error' = SetState(error, msg)
    /\ state' = SetState(state, "error")
    /\ LET failedCommand == [id |-> r, transcript |-> run[r].capTranscript,
                              intent |-> 0, success |-> FALSE]
       IN IF run[r].capTranscript # 0
            THEN /\ commandHistory' =
                       SetState(commandHistory, Prepend(failedCommand, commandHistory))
                 /\ historyLog' = SetState(historyLog, Append(historyLog, failedCommand))
            ELSE UNCHANGED <<commandHistory, historyLog>>
    /\ onErrorCalls' = onErrorCalls + 1
    /\ IF autoRetry /\ retryCountRef < maxRetries
         THEN /\ retryCountRef' = retryCountRef + 1
              /\ retryTimers' = [retryTimers EXCEPT ![run[r].capTranscript] = @ + 1]
              /\ UNCHANGED idleTimers
         ELSE /\ idleTimers' = idleTimers + 1
              /\ UNCHANGED <<retryCountRef, retryTimers>>
    /\ run' = [run EXCEPT ![r] = DoneRun]
    /\ UNCHANGED <<intent, recordingTime, mounted, optVars, txVars, nlpVars, utilVars, refVars,
                   lastAudioBlobRef, sess, nSess, nRuns, onSuccessCalls, pipelineFor,
                   tooShortFor, cancelled>>

VoiceOutcomes == {"ok", "httpError", "noSpeech"}

\* The /api/voice response of a run arrives.
VoiceResponse(r, outcome) ==
    /\ Rendered
    /\ run[r].pc = "voice"
    /\ CASE outcome = "ok" ->
              /\ transcript' = SetState(transcript, run[r].blob)
              /\ run' = [run EXCEPT ![r] = [@ EXCEPT !.pc = "nlp", !.text = run[r].blob]]
              /\ UNCHANGED <<state, intent, error, recordingTime, commandHistory, historyLog, mounted, optVars, txVars, nlpVars, utilVars, refVars, blobVars, sess, nSess, nRuns,
                             timerVars, obsVars, cancelled>>
         [] outcome = "httpError" ->
              /\ PipelineFail(r, "transcriptionFailed")
              /\ UNCHANGED transcript
         [] outcome = "noSpeech" ->
              /\ PipelineFail(r, "noSpeech")
              /\ UNCHANGED transcript
    /\ view' = AfterRender

NlpOutcomes == {"valid", "httpError", "noIntent", "invalid"}

\* The /api/nlp response of a run arrives.
NlpResponse(r, outcome) ==
    /\ Rendered
    /\ run[r].pc = "nlp"
    /\ CASE outcome = "valid" ->
              /\ intent' = SetState(intent, run[r].text)
              /\ state' = SetState(state, "complete")
              /\ LET newCommand == [id |-> r, transcript |-> run[r].text,
                                     intent |-> run[r].text, success |-> TRUE]
                 IN /\ commandHistory' =
                          SetState(commandHistory, Prepend(newCommand, commandHistory))
                    /\ historyLog' = SetState(historyLog, Append(historyLog, newCommand))
              /\ retryCountRef' = 0
              /\ onSuccessCalls' = onSuccessCalls + 1
              /\ idleTimers' = idleTimers + 1
              /\ run' = [run EXCEPT ![r] = DoneRun]
              /\ UNCHANGED <<transcript, error, recordingTime, mounted, optVars, txVars, nlpVars, utilVars,
                             refVars, lastAudioBlobRef, sess, nSess, nRuns, retryTimers,
                             onErrorCalls, pipelineFor, tooShortFor, cancelled>>
         [] outcome = "httpError" ->
              /\ PipelineFail(r, "intentFailed")
              /\ UNCHANGED transcript
         [] outcome = "noIntent" ->
              /\ PipelineFail(r, "noIntent")
              /\ UNCHANGED transcript
         [] outcome = "invalid" ->
              /\ PipelineFail(r, "invalidCommand")
              /\ UNCHANGED transcript
    /\ view' = AfterRender

\* A pending setTimeout(() => setState('idle')) fires.
IdleTimerFire ==
    /\ Rendered
    /\ idleTimers > 0
    /\ idleTimers' = idleTimers - 1
    /\ state' = SetState(state, "idle")
    /\ UNCHANGED <<transcript, intent, error, recordingTime, commandHistory, historyLog, mounted, optVars, txVars, nlpVars, utilVars, refVars, blobVars, sess, nSess, run, nRuns,
                   retryTimers, obsVars, cancelled>>
    /\ view' = AfterRender

\* A pending auto-retry timeout fires; capTr is the transcript captured by the
\* processAudioBlob closure that armed it.
RetryTimerFire(capTr) ==
    /\ Rendered
    /\ retryTimers[capTr] > 0
    /\ retryTimers' = [retryTimers EXCEPT ![capTr] = @ - 1]
    /\ IF lastAudioBlobRef # 0
         THEN processAudioBlobStart(lastAudioBlobRef, capTr)
         ELSE UNCHANGED <<run, nRuns, state, error>>
    /\ UNCHANGED <<transcript, intent, recordingTime, commandHistory, historyLog, mounted,
                   optVars, txVars, nlpVars, utilVars, refVars, blobVars, sess, nSess, idleTimers,
                   obsVars, cancelled>>
    /\ view' = AfterRender

\* A call of cancelRecording.
CancelRecording ==
    /\ mounted
    /\ state' = "idle"
    /\ error' = "none"
    /\ transcript' = 0
    /\ intent' = 0
    /\ recordingTime' = 0
    /\ cleanupResources(sess)
    /\ cancelled' = TRUE
    /\ UNCHANGED <<commandHistory, historyLog, view, mounted, optVars, txVars, nlpVars, utilVars, blobVars, nSess, run,
                   nRuns, timerVars, obsVars>>

\* A call of retry.
Retry ==
    /\ mounted
    /\ cancelled' = FALSE
    /\ IF lastAudioBlobRef # 0
         THEN /\ retryCountRef' = 0
              /\ processAudioBlobStart(lastAudioBlobRef, view.transcript)
              /\ UNCHANGED <<transcript, intent, recordingTime, commandHistory, historyLog, refVars,
                             lastAudioBlobRef, sess, nSess, timerVars, obsVars>>
         ELSE StartRecordingBody
    /\ UNCHANGED <<view, mounted, optVars, txVars, nlpVars, utilVars>>

\* A call of clearError.
ClearError ==
    /\ mounted
    /\ error' = "none"
    /\ state' = IF view.state = "error" THEN "idle" ELSE state
    /\ cancelled' = FALSE
    /\ UNCHANGED <<transcript, intent, recordingTime, commandHistory, historyLog, view, mounted,
                   optVars, txVars, nlpVars, utilVars, refVars, blobVars, sess, nSess, run, nRuns, timerVars,
                   obsVars>>

\* clearHistory, had it reset the result of the last command as well.
ClearHistoryResets ==
    /\ mounted
    /\ commandHistory' = <<>>
    /\ historyLog' = <<>>
    /\ transcript' = 0
    /\ intent' = 0
    /\ error' = "none"
    /\ cancelled' = FALSE
    /\ UNCHANGED <<state, recordingTime, view, mounted, optVars, txVars, nlpVars, utilVars, refVars,
                   blobVars, sess, nSess, run, nRuns, timerVars, obsVars>>

\* A call of clearHistory.
ClearHistory ==
    /\ mounted
    /\ commandHistory' = <<>>
    /\ historyLog' = <<>>
    /\ cancelled' = FALSE
    /\ UNCHANGED <<state, transcript, intent, error, recordingTime, view, mounted,
                   optVars, txVars, nlpVars, utilVars, refVars, blobVars, sess, nSess, run, nRuns, timerVars,
                   obsVars>>

\* The component unmounts: the effect's cleanup runs cleanupResources.
Unmount ==
    /\ mounted
    /\ mounted' = FALSE
    /\ cleanupResources(sess)
    /\ UNCHANGED <<reactVars, historyLog, view, optVars, txVars, nlpVars, utilVars, blobVars, nSess, run, nRuns, timerVars,
                   obsVars, cancelled>>


(***************************************************************************)
(* The transaction side.                                                   *)
(*                                                                         *)
(* The page (SpecPage) and the useWallet hook (SpecWallet) both submit     *)
(* through ArcService (src/lib/blockchain/arc.ts) to the account the       *)
(* configured private key names; the steps of ArcService are shared.       *)
(*                                                                         *)
(* Amounts and balances are in thousandths of a USDC.  The handlers of the *)
(* page are re-created on every render and are called from DOM events,     *)
(* which React renders between; they see the current state.  The one       *)
(* exception is handleVoiceCommandProcessed, a useCallback with an empty   *)
(* dependency list, which keeps the closure of the first render.           *)
(***************************************************************************)

\* ethers.isAddress, on an address string that is well-formed ("valid"),
\* malformed ("invalid") or absent ("none").
IsAddress(to) == to = "valid"

Half == InitBalance \div 2

\* The amounts of the model: nothing, less than the minimum, part of the
\* balance, all of it, more than it, more than the maximum.
Amounts == {0, MinAmount \div 2, Half, InitBalance, InitBalance + Half, MaxAmount + 1}

\* ArcService.validateAmount, and validateUSDCAmount of the intent validator:
\* "ok" or the error.
validateAmount(amount) ==
    IF amount <= 0 THEN "Amount must be greater than zero"
    ELSE IF amount < MinAmount THEN "Amount must be at least 0.01 USDC"
    ELSE IF amount > MaxAmount THEN "Amount cannot exceed 10000 USDC"
    ELSE "ok"

ValidAmounts == {a \in Amounts : validateAmount(a) = "ok"}

Intent(action, amount, recipient, confirmationRequired) ==
    [action |-> action, amount |-> amount, recipient |-> recipient,
     confirmationRequired |-> confirmationRequired]

\* The intents /api/nlp delivers with isValid = true: validatePaymentIntent
\* has checked the amount of a send, split or pay_bill intent and the recipient
\* of a send intent, and nothing else.
DeliveredIntents ==
    {Intent("send", a, "valid", c) : a \in ValidAmounts, c \in BOOLEAN}
      \cup {Intent("pay_bill", a, "invalid", TRUE) : a \in {Half, InitBalance + Half}}
      \cup {Intent(q, Half, "valid", c) : q \in {"pay_bill", "request"}, c \in BOOLEAN}
      \cup {Intent("split", Half, "none", TRUE)}
      \cup {Intent(q, 0, "none", c) : q \in {"check_balance", "view_history"}, c \in BOOLEAN}
      \cup {Intent("cancel", 0, "none", TRUE)}

NoIntent == Intent("none", 0, "none", FALSE)

TxIds == 1..MaxTx
CmdIds == 1..MaxCmds

\* A call of handleSendTransaction or sendTransaction that has not been made.
\* walletOk and cached record what the call saw of the wallet session and of
\* the balance the caller holds; calls counts its usdcContract.transfer calls.
NoTx == [pc |-> "none", via |-> "none", cmd |-> 0, to |-> "none", amount |-> 0,
         walletOk |-> FALSE, cached |-> 0, calls |-> 0, balAtCall |-> 0,
         reported |-> "none"]

\* The closure of the page's first render.
FirstRender == [arcService |-> 0, balance |-> 0]

\* The closure of the page's current render.
CurrentRender == [arcService |-> page.arcService, balance |-> page.balance]

InitTx ==
    /\ page = [arcService |-> 0, walletAddress |-> 0, balance |-> 0,
               isLoadingTransaction |-> FALSE, error |-> "", success |-> <<>>,
               currentCommand |-> 0, showConfirmation |-> FALSE,
               transactions |-> <<>>, pendingLoads |-> 0]
    /\ wallet = [isConnected |-> FALSE, isConnecting |-> FALSE, address |-> 0,
                 balance |-> <<>>, error |-> "", arcServiceRef |-> 0,
                 pendingRefresh |-> 0, refreshIntervalRef |-> 0,
                 intervalArmed |-> FALSE, effectDue |-> FALSE, ticks |-> 0]
    /\ chainBalance = InitBalance
    /\ tx = [k \in TxIds |-> NoTx]
    /\ nTx = 0
    /\ cmd = [c \in CmdIds |-> [intent |-> NoIntent, handled |-> "none"]]
    /\ nCmd = 0
    /\ confirmed = {}
    /\ cancelledCmds = {}
    /\ userSubmits = 0

(***************************************************************************)
(* The intent side: validatePaymentIntent and the validators it calls      *)
(* (src/unnamed/part_001), and the handler of POST /api/nlp with its       *)
(* fallback extractor (src/pages/api/nlp.ts).                              *)
(*                                                                         *)
(* An amount is a JavaScript number, or undefined: th is its value in      *)
(* thousandths of a USDC, rounded down, and sub what is left in units of   *)
(* 0.0000001 USDC.  An address string is the presence of the 0x prefix and *)
(* the kind of what follows it.                                            *)
(***************************************************************************)

Num(th, sub) == [kind |-> "number", th |-> th, sub |-> sub]
NaN == [kind |-> "NaN", th |-> 0, sub |-> 0]
Undefined == [kind |-> "undefined", th |-> 0, sub |-> 0]

\* The amounts of the model: undefined, NaN, negative, zero, positive under
\* the minimum, the minimum, in bounds with 0, 6 and 7 decimals, the maximum,
\* and over it with 0 and 7 decimals.
IntentAmounts ==
    {Undefined, NaN, Num(0 - Half, 0), Num(0, 0), Num(MinAmount \div 2, 0),
     Num(MinAmount, 0), Num(50000, 0), Num(Half, 10), Num(Half, 1),
     Num(MaxAmount, 0), Num(MaxAmount, 1), Num(MaxAmount + 1000, 0)}

\* numAmount <= 0, numAmount < minAmount, numAmount > maxAmount
NotPositive(a) == a.th < 0 \/ (a.th = 0 /\ a.sub = 0)
BelowMin(a) == a.th < MinAmount
AboveMax(a) == a.th > MaxAmount \/ (a.th = MaxAmount /\ a.sub > 0)

\* cleaned.split('.')[1].length, for the decimal string of a number
DecimalPlaces(a) ==
    IF a.sub % 10 # 0 THEN 7
    ELSE IF a.sub % 100 # 0 THEN 6
    ELSE IF a.sub % 1000 # 0 THEN 5
    ELSE IF a.sub # 0 THEN 4
    ELSE IF a.th % 10 # 0 THEN 3
    ELSE IF a.th % 100 # 0 THEN 2
    ELSE IF a.th % 1000 # 0 THEN 1
    ELSE 0

Valid == [valid |-> TRUE, error |-> ""]
Invalid(msg) == [valid |-> FALSE, error |-> msg]

\* validateUSDCAmount(amount) with the default options.  undefined has no
\* trim method: the TypeError is caught.
validateUSDCAmount(amount) ==
    IF amount.kind = "undefined" THEN Invalid("Invalid amount")
    ELSE IF amount.kind = "NaN" THEN Invalid("Invalid amount format")
    ELSE IF NotPositive(amount) THEN Invalid("Amount must be greater than zero")
    ELSE IF BelowMin(amount) THEN Invalid("Amount must be at least 0.01 USDC")
    ELSE IF AboveMax(amount) THEN Invalid("Amount cannot exceed 10000 USDC")
    ELSE IF DecimalPlaces(amount) > maxDecimals
      THEN Invalid("Amount cannot have more than 6 decimal places")
    ELSE Valid

Address(prefix, body) == [prefix |-> prefix, body |-> body]

\* No string at all (undefined, null or "").
NoAddress == Address(FALSE, "none")

\* What follows the prefix is nothing ("none"), a word (the word itself, or
\* "name"), fewer than 40 hex digits ("short"), or 40 hex digits: all zero
\* ("zeros"), without letters ("digits"), with letters in the case of the
\* EIP-55 checksum ("checksummed") or in another mix of cases ("badsum").

\* ethers.isAddress: 40 hex digits, with or without the 0x prefix, in one
\* case or in the case of the checksum.
isAddress(address) == address.body \in {"zeros", "digits", "checksummed"}

\* validateAddress(address)
validateAddress(address) ==
    IF ~isAddress(address) THEN Invalid("Invalid address format") ELSE Valid

\* isZeroAddress(address): the string is ethers.ZeroAddress.
isZeroAddress(address) == address.prefix /\ address.body = "zeros"

Names == {"Bob", "Charlie"}

Participant(identifier, address) == [identifier |-> identifier, address |-> address]

\* `Invalid address for participant: ${participant.identifier}`
InvalidParticipant(identifier) ==
    IF identifier = "Bob" THEN "Invalid address for participant: Bob"
    ELSE "Invalid address for participant: Charlie"

validActions ==
    {"send", "request", "split", "pay_bill", "check_balance", "view_history", "cancel"}

\* actionsRequiringAmount, had it named the send action alone.
actionsRequiringAmountSendOnly == {"send"}

actionsRequiringAmount == {"send", "split", "pay_bill"}

\* A PaymentIntent, as far as the validator reads it.  participants is <<>>
\* when the field is absent.
PaymentIntent(action, amount, currency, recipient, participants) ==
    [action |-> action, amount |-> amount, currency |-> currency,
     recipient |-> recipient, participants |-> participants]

\* The errors the loop over the participants pushes.
RECURSIVE ParticipantErrors(_)
ParticipantErrors(ps) ==
    IF ps = <<>> THEN <<>>
    ELSE (IF Head(ps).address # NoAddress /\ ~validateAddress(Head(ps).address).valid
            THEN <<InvalidParticipant(Head(ps).identifier)>>
            ELSE <<>>)
         \o ParticipantErrors(Tail(ps))

\* validatePaymentIntent(intent)
validatePaymentIntent(i) ==
    LET actionErrors ==
            IF i.action \notin validActions THEN <<"Invalid payment action">> ELSE <<>>
        amountErrors ==
            IF i.action \in actionsRequiringAmount
              THEN (IF i.amount.kind # "number" \/ NotPositive(i.amount)
                      THEN <<"Amount is required and must be greater than zero">>
                      ELSE <<>>)
                   \o (IF ~validateUSDCAmount(i.amount).valid
                         THEN <<validateUSDCAmount(i.amount).error>>
                         ELSE <<>>)
              ELSE <<>>
        recipientErrors ==
            IF i.action = "send"
              THEN IF i.recipient = NoAddress
                     THEN <<"Recipient address is required for send action">>
                     ELSE (IF ~validateAddress(i.recipient).valid
                             THEN <<validateAddress(i.recipient).error>>
                             ELSE <<>>)
                          \o (IF isZeroAddress(i.recipient)
                                THEN <<"Cannot send to zero address">>
                                ELSE <<>>)
              ELSE <<>>
        participantErrors ==
            IF i.action = "split"
              THEN (IF Len(i.participants) = 0
                      THEN <<"Participants are required for split action">>
                      ELSE IF Len(i.participants) < 2
                        THEN <<"Split action requires at least 2 participants">>
                        ELSE <<>>)
                   \o ParticipantErrors(i.participants)
              ELSE <<>>
        currencyErrors ==
            IF i.currency # "USDC" THEN <<"Only USDC is supported">> ELSE <<>>
        errors == actionErrors \o amountErrors \o recipientErrors
                    \o participantErrors \o currencyErrors
    IN [valid |-> Len(errors) = 0, errors |-> errors]

\* The intents the validator is called with.
IntentRecipients ==
    {NoAddress, Address(FALSE, "name"), Address(TRUE, "short"),
     Address(TRUE, "zeros"), Address(FALSE, "zeros"),
     Address(TRUE, "checksummed"), Address(TRUE, "badsum")}

IntentParticipants ==
    {<<>>,
     <<Participant("Bob", NoAddress)>>,
     <<Participant("Bob", Address(TRUE, "badsum"))>>,
     <<Participant("Bob", NoAddress), Participant("Charlie", NoAddress)>>,
     <<Participant("Bob", Address(TRUE, "checksummed")), Participant("Charlie", NoAddress)>>,
     <<Participant("Bob", NoAddress), Participant("Charlie", Address(TRUE, "badsum"))>>}

Intents ==
    {PaymentIntent(a, n, c, r, ps) :
        a \in validActions \cup {"tip"}, n \in IntentAmounts, c \in {"USDC", "ETH"},
        r \in IntentRecipients, ps \in IntentParticipants}

NoValidation == [pc |-> "none", intent |-> PaymentIntent("none", Undefined, "", NoAddress, <<>>),
                 result |-> [valid |-> FALSE, errors |-> <<>>]]


\* ---- the texts and the extractors of POST /api/nlp ----

\* A text is the sequence of its words, joined by single spaces.
DigitsAddress == "0x1234567890123456789012345678901234567890"
ZeroAddress == "0x0000000000000000000000000000000000000000"
\* 40 hex digits whose letters are not in the case of their checksum
MixedCaseAddress == "0x5aaeb6053F3E94C9b9A09f33669435E7Ef1BeAed"
HexAddresses == {DigitsAddress, ZeroAddress, MixedCaseAddress}

\* toLowerCase left out.
SameCase(w) == w

\* String.prototype.toLowerCase, on the words of the model.
Lower(w) ==
    CASE w = "Balance" -> "balance"
      [] w = "How" -> "how"
      [] w = "History" -> "history"
      [] w = "CANCEL" -> "cancel"
      [] w = "Split" -> "split"
      [] w = "Send" -> "send"
      [] w = "Pay" -> "pay"
      [] w = "Bill" -> "bill"
      [] w = "Bob" -> "bob"
      [] w = "Charlie" -> "charlie"
      [] w = "USDC" -> "usdc"
      [] OTHER -> w

\* lowerText.includes(keyword), for a keyword of one word: a substring test.
Includes(text, keyword) ==
    \E k \in 1..Len(text) :
        \/ Lower(text[k]) = keyword
        \/ Lower(text[k]) = "transactions" /\ keyword = "transaction"

\* lowerText.includes("how much")
IncludesHowMuch(text) ==
    \E k \in 1..(Len(text) - 1) : Lower(text[k]) = "how" /\ Lower(text[k + 1]) = "much"

\* The number the first run of digits of a word parses to, if it has one: the
\* capture of /(\d+(?:\.\d+)?)/ in the word.
NumberIn(w) ==
    CASE w = "0" -> <<Num(0, 0)>>
      [] w = "50" -> <<Num(50000, 0)>>
      [] w = "100" -> <<Num(100000, 0)>>
      [] w = "0.005" -> <<Num(5, 0)>>
      [] w = "50.1234567" -> <<Num(50123, 4567)>>
      [] w = "20000" -> <<Num(20000000, 0)>>
      [] w \in HexAddresses -> <<Num(0, 0)>>
      [] OTHER -> <<>>

\* text.match(number pattern): the first number of the text, or nothing.
RECURSIVE AmountMatch(_)
AmountMatch(text) ==
    IF text = <<>> THEN <<>>
    ELSE IF NumberIn(Head(text)) # <<>> THEN NumberIn(Head(text))
    ELSE AmountMatch(Tail(text))

\* The (\w+) capture at the start of a word.
WordOf(w) ==
    CASE w = "50.1234567" -> "50"
      [] w = "0.005" -> "0"
      [] OTHER -> w

\* The address string a word is.
AddressOf(w) ==
    CASE w = DigitsAddress -> Address(TRUE, "digits")
      [] w = ZeroAddress -> Address(TRUE, "zeros")
      [] w = MixedCaseAddress -> Address(TRUE, "badsum")
      [] OTHER -> Address(FALSE, w)

\* text.match(/0x[a-fA-F0-9]{40}/): the first address of the text, or nothing.
RECURSIVE AddressMatch(_)
AddressMatch(text) ==
    IF text = <<>> THEN <<>>
    ELSE IF Head(text) \in HexAddresses THEN <<Head(text)>>
    ELSE AddressMatch(Tail(text))

\* text.match(/(?:to|for)\s+(\w+)/i): the capture of the first match.
RECURSIVE NameMatch(_)
NameMatch(text) ==
    IF Len(text) < 2 THEN <<>>
    ELSE IF Lower(Head(text)) \in {"to", "for"} THEN <<WordOf(text[2])>>
    ELSE NameMatch(Tail(text))

\* The participants, had the pattern lacked its g flag: the first match only.
RECURSIVE NameMatchesFirstOnly(_)
NameMatchesFirstOnly(text) ==
    IF Len(text) < 2 THEN <<>>
    ELSE IF Lower(Head(text)) \in {"with", "and"}
      THEN <<Participant(WordOf(text[2]), NoAddress)>>
    ELSE NameMatchesFirstOnly(Tail(text))

\* text.match(/(?:with|and)\s+(\w+)/gi), each match stripped of its first
\* word: a match ends with its capture, and the search goes on behind it.
RECURSIVE NameMatches(_)
NameMatches(text) ==
    IF Len(text) < 2 THEN <<>>
    ELSE IF Lower(Head(text)) \in {"with", "and"}
      THEN <<Participant(WordOf(text[2]), NoAddress)>> \o NameMatches(Tail(Tail(text)))
    ELSE NameMatches(Tail(text))

\* The PaymentIntent an extractor returns.
Extracted(action, amount, recipient, participants, confirmationRequired, text) ==
    [action |-> action, amount |-> amount, currency |-> "USDC",
     recipient |-> recipient, participants |-> participants,
     confirmationRequired |-> confirmationRequired, originalCommand |-> text,
     isValid |-> TRUE, validationErrors |-> <<>>]

\* extractIntentFallback(text)
extractIntentFallback(text) ==
    LET amount == IF AmountMatch(text) # <<>> THEN AmountMatch(text)[1] ELSE Num(0, 0)
        recipient == IF AddressMatch(text) # <<>> THEN AddressOf(AddressMatch(text)[1])
                     ELSE IF NameMatch(text) # <<>> THEN Address(FALSE, NameMatch(text)[1])
                     ELSE NoAddress
    IN IF Includes(text, "balance") \/ IncludesHowMuch(text)
         THEN Extracted("check_balance", Num(0, 0), NoAddress, <<>>, FALSE, text)
       ELSE IF Includes(text, "history") \/ Includes(text, "transaction")
         THEN Extracted("view_history", Num(0, 0), NoAddress, <<>>, FALSE, text)
       ELSE IF Includes(text, "cancel")
         THEN Extracted("cancel", Num(0, 0), NoAddress, <<>>, TRUE, text)
       ELSE IF Includes(text, "split")
         THEN Extracted("split", amount, NoAddress, NameMatches(text), TRUE, text)
       ELSE IF Includes(text, "send") \/ Includes(text, "transfer") \/ Includes(text, "pay")
         THEN Extracted(IF Includes(text, "bill") THEN "pay_bill" ELSE "send",
                        amount, recipient, <<>>, TRUE, text)
       ELSE Extracted("send", amount, recipient, <<>>, TRUE, text)

\* DemoNLPService.processIntent(text): a mock command or parseTextIntent, which
\* agree on the words of the model.
DemoIntent(text) ==
    IF Includes(text, "balance")
      THEN Extracted("check_balance", Num(0, 0), NoAddress, <<>>, FALSE, text)
    ELSE IF Includes(text, "history") \/ Includes(text, "transaction")
      THEN Extracted("view_history", Num(0, 0), NoAddress, <<>>, FALSE, text)
    ELSE Extracted("send",
                   IF AmountMatch(text) # <<>> THEN AmountMatch(text)[1] ELSE Num(10000, 0),
                   Address(TRUE, "digits"), <<>>, TRUE, text)

\* sanitizeInput(text): the word "<>" is made of removed characters only.
sanitizeInput(text) == SelectSeq(text, LAMBDA w : w # "<>")

\* The words a text of keywords is made of.
KeywordWords ==
    {"Balance", "How", "much", "History", "transactions", "CANCEL", "Split", "Send",
     "transfer", "Pay", "Bill", "hello", "<>"}

\* The words that follow the verb and the amount of a command.
TailWords == {"with", "and", "to", "Bob", "Charlie", DigitsAddress}

RECURSIVE SeqsUpTo(_, _)
SeqsUpTo(S, n) ==
    IF n = 0 THEN {<<>>}
    ELSE LET shorter == SeqsUpTo(S, n - 1)
         IN shorter \cup {Append(t, w) : t \in shorter, w \in S}

\* The texts of the model: up to MaxKeywords keyword words in any order; a
\* verb, an amount or none, and up to MaxTail further words; the two
\* commands of the specification's examples; and commands with an amount
\* out of bounds, an amount behind the address, and the other addresses.
Texts ==
    SeqsUpTo(KeywordWords, MaxKeywords)
      \cup {<<v>> \o n \o t : v \in {"Send", "Split", "hello"},
                              n \in {<<>>, <<"50">>, <<"50.1234567">>},
                              t \in SeqsUpTo(TailWords, MaxTail)}
      \cup {<<"Send", "50", "USDC", "to", DigitsAddress>>,
            <<"Split", "100", "USDC", "with", "Bob", "and", "Charlie">>,
            <<"Pay", "0.005", "for", "Bill">>, <<"Send", "20000", "to", ZeroAddress>>,
            <<"Send", "0", "USDC", "to", "Bob">>, <<"Send", "to", DigitsAddress, "50">>,
            <<"Send", "50", "to", ZeroAddress>>, <<"Send", "50", "to", MixedCaseAddress>>}

\* The intents extractIntent builds from the JSON of the language model.
AiIntents(text) ==
    {Extracted("send", Num(50000, 0), Address(FALSE, "Alice"), <<>>, TRUE, text),
     Extracted("send", Num(50000, 0), Address(TRUE, "checksummed"), <<>>, TRUE, text),
     Extracted("send", Num(50000, 0), Address(TRUE, "checksummed"), <<>>, FALSE, text),
     Extracted("send", Num(0, 0), Address(TRUE, "checksummed"), <<>>, TRUE, text),
     Extracted("pay_bill", Num(0 - Half, 0), Address(FALSE, "Alice"), <<>>, TRUE, text),
     Extracted("split", Num(0, 0), NoAddress,
               <<Participant("Bob", NoAddress), Participant("Charlie", NoAddress)>>,
               TRUE, text),
     Extracted("check_balance", Num(0, 0), NoAddress, <<>>, FALSE, text),
     Extracted("tip", Num(50000, 0), NoAddress, <<>>, TRUE, text)}

\* The ways extractIntent throws: callCloudflareAI without credentials, a
\* rejected or timed-out axios.post, a response without parsable JSON, and
\* JSON that is null.
AiFailures == {"noCredentials", "httpError", "timeout", "unparsable", "nullJson"}

NoExtracted == Extracted("none", Undefined, NoAddress, <<>>, FALSE, <<>>)

Response(status, success, i, errorCode) ==
    [status |-> status, success |-> success, intent |-> i, errorCode |-> errorCode]

ErrorResponse(status, errorCode) == Response(status, FALSE, NoExtracted, errorCode)

NoResponse == Response(0, FALSE, NoExtracted, "")

NoRequest == [pc |-> "none", demo |-> FALSE, text |-> <<>>, ai |-> "none",
              extracted |-> NoExtracted, res |-> NoResponse]

InitNlp ==
    /\ nlp = NoRequest
    /\ validation = NoValidation

(***************************************************************************)
(* The utilities.                                                          *)
(*                                                                         *)
(*   SpecUtil   calls of retryWithBackoff (src/lib/utils.ts), whose fn     *)
(*              resolves or rejects at each call, and calls of             *)
(*              validateSufficientBalance.                                 *)
(*                                                                         *)
(* An error is named by the number of the fn call that threw it; 0 is      *)
(* undefined.  Balances and amounts are in thousandths of a USDC.          *)
(***************************************************************************)

NoRetryCall == [pc |-> "none", maxRetries |-> 0, delay |-> 0, i |-> 0, calls |-> 0,
                lastError |-> 0, slept |-> <<>>, result |-> 0, thrown |-> 0]

\* Math.pow(2, i)
RECURSIVE Pow2(_)
Pow2(i) == IF i = 0 THEN 1 ELSE 2 * Pow2(i - 1)

\* The arguments of retryWithBackoff in the model; 3 and 1000 are its defaults.
RetryCounts == 0..MaxRetryCount
Delays == {1000, 250}

\* The strings passed as balance and amount, by what parseFloat makes of
\* them: a number of thousandths, or NaN.
Parsed(th) == [kind |-> "number", th |-> th]
NotANumber == [kind |-> "NaN", th |-> 0]

BalanceStrings ==
    {Parsed(th) : th \in {0, 10, 20, 60, 150, 99990, 100000, 100005, 100010}}
      \cup {NotANumber}
AmountStrings ==
    {Parsed(th) : th \in {0, 5, 10, 50, 140, 99980, 99990, 99995, 100000}}
      \cup {NotANumber}

\* amountNum + buffer in IEEE 754 double arithmetic: the decimal sum, and
\* whether the double the addition yields lies above the double nearest to
\* that decimal (0.05 + 0.01 is 0.060000000000000005, 0.14 + 0.01 is
\* 0.15000000000000002, 99.98 + 0.01 is 99.99000000000001 and 99.995 + 0.01
\* is 100.00500000000001; the other sums of the model, and every sum with
\* buffer 0, are the nearest double).
FloatSum(amountNum, buffer) ==
    [th |-> amountNum + buffer,
     above |-> buffer = SafetyBuffer /\ amountNum \in {50, 140, 99980, 99995}]

\* balanceNum < required, for the double nearest to a decimal on the left.
FloatLess(balanceNum, required) ==
    \/ balanceNum < required.th
    \/ balanceNum = required.th /\ required.above

\* validateSufficientBalance(balance, amount, includeGasBuffer)
validateSufficientBalance(balance, amount, includeGasBuffer) ==
    IF balance.kind = "NaN" \/ amount.kind = "NaN"
      THEN [sufficient |-> FALSE, error |-> "Invalid balance or amount"]
    ELSE LET buffer == IF includeGasBuffer THEN SafetyBuffer ELSE 0
             required == FloatSum(amount.th, buffer)
         IN IF FloatLess(balance.th, required)
              THEN [sufficient |-> FALSE, error |-> "Insufficient balance"]
              ELSE [sufficient |-> TRUE, error |-> ""]

NoSufficiencyCall == [pc |-> "none", balance |-> NotANumber, amount |-> NotANumber,
                      includeGasBuffer |-> FALSE,
                      result |-> [sufficient |-> FALSE, error |-> ""]]

\* The callers of the rate limiter, whose entries are keyed by identifier.
Identifiers == {"a", "b"}

\* No entry of rateLimitMap, and no result.
NoEntry == [count |-> 0, resetTime |-> -1]
NoLimitResult == [identifier |-> "none", allowed |-> FALSE, remaining |-> 0, resetTime |-> -1]

\* The rate limiter when the module is loaded: an empty map, callers that
\* pass maxRequests and windowMs.
NewRateLimiter(maxRequests, windowMs) ==
    [now |-> 0, maxRequests |-> maxRequests, windowMs |-> windowMs,
     map |-> [id \in Identifiers |-> NoEntry],
     result |-> NoLimitResult,
     granted |-> [id \in Identifiers |-> [resetTime |-> -1, n |-> 0]]]

\* A request to /api/voice that has not been answered.
NoVoiceCall == [status |-> 0, success |-> FALSE, transcript |-> 0,
                errorCode |-> "", service |-> "none", transcribeCalls |-> 0]

\* The VoiceRecorder component as mounted: idle, nothing recorded.
NoRecorder == [state |-> "idle", pc |-> "none", recordingTime |-> 0,
               capRecordingTime |-> 0, stream |-> FALSE, timer |-> FALSE,
               acquisition |-> "none", onError |-> "none", onErrorCalls |-> 0,
               onCommandProcessed |-> 0, resetTimers |-> 0, starts |-> 0]

InitUtil ==
    /\ retry = NoRetryCall
    /\ sufficiency = NoSufficiencyCall
    /\ voiceRecorder = NoRecorder
    /\ voiceApi = [r \in Runs |-> NoVoiceCall]
    /\ rateLimit = NewRateLimiter(MaxLimit, MaxWindow)


\* The steps of the hook with the default options (autoRetry = false, under
\* which no auto-retry timeout is ever armed).
NextVoice ==
    \/ Render
    \/ StartRecording
    \/ \E s \in Sessions : MicGranted(s)
    \/ \E s \in Sessions, name \in MicErrors : MicRejected(s, name)
    \/ \E s \in Sessions : Tick(s)
    \/ \E s \in Sessions : Frame(s)
    \/ StopRecording
    \/ \E s \in Sessions : AutoStopFire(s)
    \/ \E s \in Sessions : TracksEnded(s)
    \/ \E s \in Sessions : OnStop(s)
    \/ \E r \in Runs, o \in VoiceOutcomes : VoiceResponse(r, o)
    \/ \E r \in Runs, o \in NlpOutcomes : NlpResponse(r, o)
    \/ IdleTimerFire
    \/ CancelRecording
    \/ Retry
    \/ ClearError
    \/ ClearHistory
    \/ Unmount

\* useVoice() with its default options.
InitVoice ==
    /\ InitHook
    /\ autoRetry = FALSE
    /\ budget = [sessions |-> MaxSessions, runs |-> MaxRuns,
                 inflight |-> MaxRuns + MaxRetries]
    /\ InitTx
    /\ InitNlp
    /\ InitUtil

SpecVoice == InitVoice /\ [][NextVoice]_vars

\* useVoice({autoRetry: true, maxRetries}), one recording.
InitVoiceRetry ==
    /\ InitHook
    /\ autoRetry = TRUE
    /\ budget = [sessions |-> 1, runs |-> MaxRuns + MaxRetries,
                 inflight |-> MaxRuns + MaxRetries]
    /\ InitTx
    /\ InitNlp
    /\ InitUtil

\* The steps of the hook with the auto-retry timeout.  With one recording the
\* level-sampling loop is always the one the refs point to, and a frame of
\* it changes nothing.
NextVoiceRetry ==
    \/ Render
    \/ StartRecording
    \/ \E s \in Sessions : MicGranted(s)
    \/ \E s \in Sessions, name \in MicErrors : MicRejected(s, name)
    \/ \E s \in Sessions : Tick(s)
    \/ StopRecording
    \/ \E s \in Sessions : AutoStopFire(s)
    \/ \E s \in Sessions : TracksEnded(s)
    \/ \E s \in Sessions : OnStop(s)
    \/ \E r \in Runs, o \in VoiceOutcomes : VoiceResponse(r, o)
    \/ \E r \in Runs, o \in NlpOutcomes : NlpResponse(r, o)
    \/ IdleTimerFire
    \/ \E t \in 0..MaxSessions : RetryTimerFire(t)
    \/ CancelRecording
    \/ Retry
    \/ ClearError
    \/ ClearHistory
    \/ Unmount

SpecVoiceRetry == InitVoiceRetry /\ [][NextVoiceRetry]_vars

\* useVoice({autoRetry: true, maxRetries}), one recording, with room for one
\* pipeline run more than the retry ceiling allows.
InitRetryLive ==
    /\ InitHook
    /\ autoRetry = TRUE
    /\ budget = [sessions |-> 1, runs |-> MaxRuns + MaxRetries + 1,
                 inflight |-> MaxRuns + MaxRetries + 1]
    /\ InitTx
    /\ InitNlp
    /\ InitUtil

\* A call of retry before any pipeline run: the user submits the sample.
RetryFirst == nRuns = 0 /\ Retry

\* The steps of the hook when the user records, stops, submits the sample
\* once, cancels, clears the error and leaves, and the pipeline is run again
\* by the auto-retry timeout only.
NextRetryLive ==
    \/ Render
    \/ StartRecording
    \/ \E s \in Sessions : MicGranted(s)
    \/ \E s \in Sessions, name \in MicErrors : MicRejected(s, name)
    \/ \E s \in Sessions : Tick(s)
    \/ StopRecording
    \/ \E s \in Sessions : AutoStopFire(s)
    \/ \E s \in Sessions : OnStop(s)
    \/ \E r \in Runs, o \in VoiceOutcomes : VoiceResponse(r, o)
    \/ \E r \in Runs, o \in NlpOutcomes : NlpResponse(r, o)
    \/ IdleTimerFire
    \/ \E t \in 0..MaxSessions : RetryTimerFire(t)
    \/ CancelRecording
    \/ RetryFirst
    \/ ClearError
    \/ Unmount

\* React renders, the permission prompt is answered, the recorder's events
\* and timers fire, and every gateway request is answered.
FairRetryLive ==
    /\ WF_vars(Render)
    /\ \A s \in Sessions :
         /\ WF_vars(MicGranted(s) \/ \E name \in MicErrors : MicRejected(s, name))
         /\ WF_vars(Tick(s))
         /\ WF_vars(AutoStopFire(s))
         /\ WF_vars(OnStop(s))
    /\ \A r \in Runs :
         /\ WF_vars(\E o \in VoiceOutcomes : VoiceResponse(r, o))
         /\ WF_vars(\E o \in NlpOutcomes : NlpResponse(r, o))
    /\ WF_vars(IdleTimerFire)
    /\ \A t \in 0..MaxSessions : WF_vars(RetryTimerFire(t))

SpecRetryLive == InitRetryLive /\ [][NextRetryLive]_vars /\ FairRetryLive

\* useVoice() with its default options, one recording whose sample the user
\* submits again and again with retry, one submission at a time.
InitHistory ==
    /\ InitHook
    /\ autoRetry = FALSE
    /\ budget = [sessions |-> 1, runs |-> MaxHistoryRuns, inflight |-> MaxInFlight]
    /\ InitTx
    /\ InitNlp
    /\ InitUtil

\* The steps of the hook that lead to commandHistory: a recording, the
\* pipeline runs over its sample, and the calls of retry and clearHistory.
\* The timeouts that return state to idle stay pending: they touch neither
\* commandHistory nor a guard of these steps.
NextHistory ==
    \/ Render
    \/ StartRecording
    \/ \E s \in Sessions : MicGranted(s)
    \/ \E s \in Sessions : Tick(s)
    \/ StopRecording
    \/ \E s \in Sessions : OnStop(s)
    \/ \E r \in Runs, o \in VoiceOutcomes : VoiceResponse(r, o)
    \/ \E r \in Runs, o \in NlpOutcomes : NlpResponse(r, o)
    \/ Retry
    \/ ClearHistory
    \/ Unmount

SpecHistory == InitHistory /\ [][NextHistory]_vars

\* ---- the page ----

\* initializeWallet, run by the mount effect: creates the service, reads the
\* address, and starts loading the balance.
InitializeWallet ==
    /\ page.arcService = 0
    /\ page' = [page EXCEPT !.arcService = 1, !.walletAddress = 1,
                            !.pendingLoads = @ + 1]
    /\ UNCHANGED <<wallet, ledgerVars, cmdVars, voiceVars, nlpVars, utilVars>>

\* loadBalance of closure C, called on page state P: returns at once without a
\* service, and awaits getWalletBalance otherwise.
loadBalance(P, C) ==
    IF C.arcService = 0 THEN P ELSE [P EXCEPT !.pendingLoads = @ + 1]

\* A getWalletBalance call of loadBalance resolves or rejects.
PageLoadDone(ok) ==
    /\ page.pendingLoads > 0
    /\ page' = IF ok
                 THEN [page EXCEPT !.pendingLoads = @ - 1, !.balance = chainBalance]
                 ELSE [page EXCEPT !.pendingLoads = @ - 1, !.error = "Failed to load balance"]
    /\ UNCHANGED <<wallet, ledgerVars, cmdVars, voiceVars, nlpVars, utilVars>>

\* handleRefresh
HandleRefresh ==
    /\ page.arcService # 0
    /\ page.pendingLoads < MaxLoads
    /\ page' = loadBalance(page, CurrentRender)
    /\ UNCHANGED <<wallet, ledgerVars, cmdVars, voiceVars, nlpVars, utilVars>>

\* The error of the first check of handleSendTransaction (and of the
\* synchronous start of the sendUSDC call it makes) that fails, or "none".
PageSendFailure(C, i) ==
    IF C.arcService = 0 THEN "Wallet not initialized"
    ELSE IF i.recipient = "none" THEN "Recipient address is required"
    ELSE IF i.amount <= 0 THEN "Valid amount is required"
    ELSE IF validateAmount(i.amount) # "ok" THEN validateAmount(i.amount)
    ELSE IF C.balance < i.amount THEN "Insufficient balance"
    ELSE IF ~IsAddress(i.recipient) THEN "Transaction failed: Invalid recipient address"
    ELSE "none"

\* The checks of handleSendTransaction that return before its try block.
EarlyReturn(msg) ==
    msg \in {"Wallet not initialized", "Recipient address is required",
             "Valid amount is required"}

\* handleSendTransaction(intent) of closure C, called on page state P for the
\* intent i of command id: up to the await of sendUSDC, or through its catch
\* and finally blocks when a check fails.
handleSendTransaction(P, C, id, i) ==
    LET msg == PageSendFailure(C, i)
        call == [NoTx EXCEPT !.via = "page", !.cmd = id, !.to = i.recipient,
                             !.amount = i.amount, !.walletOk = C.arcService # 0,
                             !.cached = C.balance]
    IN /\ nTx < MaxTx
       /\ nTx' = nTx + 1
       /\ IF msg = "none"
            THEN /\ page' = [P EXCEPT !.isLoadingTransaction = TRUE, !.error = "",
                                      !.success = <<>>, !.showConfirmation = FALSE]
                 /\ tx' = [tx EXCEPT ![nTx + 1] = [call EXCEPT !.pc = "sendUSDC"]]
            ELSE /\ page' = IF EarlyReturn(msg)
                              THEN [P EXCEPT !.error = msg]
                              ELSE [P EXCEPT !.isLoadingTransaction = FALSE,
                                             !.error = msg, !.success = <<>>,
                                             !.showConfirmation = FALSE,
                                             !.currentCommand = 0]
                 /\ tx' = [tx EXCEPT ![nTx + 1] = [call EXCEPT !.pc = "done",
                                                              !.reported = msg]]

\* The send case of handleVoiceCommandProcessed dispatching every send intent
\* straight to handleSendTransaction, with the closure of the current render.
SendCaseUngated(P, id, i) ==
    handleSendTransaction(P, CurrentRender, id, i)

\* The send case of handleVoiceCommandProcessed: it opens the confirmation
\* modal, or calls the handleSendTransaction of its closure.
SendCase(P, id, i) ==
    IF i.confirmationRequired
      THEN /\ page' = [P EXCEPT !.showConfirmation = TRUE]
           /\ UNCHANGED <<tx, nTx>>
      ELSE handleSendTransaction(P, FirstRender, id, i)

\* handleVoiceCommandProcessed(transcript, intent): the recorder delivers the
\* intent i.  Its closure, and that of the handlers it calls, is FirstRender.
HandleVoiceCommandProcessed(i) ==
    LET id == nCmd + 1
        P == [page EXCEPT !.currentCommand = id, !.error = "", !.success = <<>>]
        Log(h) == cmd' = [cmd EXCEPT ![id] = [intent |-> i, handled |-> h]]
    IN /\ nCmd < MaxCmds
       /\ nCmd' = id
       /\ CASE i.action = "check_balance" ->
                 /\ page' = loadBalance([P EXCEPT !.success = <<"balance", FirstRender.balance>>],
                                        FirstRender)
                 /\ Log("executed")
                 /\ UNCHANGED <<tx, nTx>>
            [] i.action = "view_history" ->
                 /\ page' = [P EXCEPT !.success = <<"history">>]
                 /\ Log("executed")
                 /\ UNCHANGED <<tx, nTx>>
            [] i.action = "send" ->
                 /\ SendCase(P, id, i)
                 /\ Log(IF nTx' = nTx THEN "confirm" ELSE "direct")
            [] i.action = "split" ->
                 /\ page' = [P EXCEPT !.error = "Split payments are not yet implemented"]
                 /\ Log("unsupported")
                 /\ UNCHANGED <<tx, nTx>>
            [] i.action = "pay_bill" ->
                 /\ page' = [P EXCEPT !.error = "Bill payments are not yet implemented"]
                 /\ Log("unsupported")
                 /\ UNCHANGED <<tx, nTx>>
            [] OTHER ->
                 /\ page' = [P EXCEPT !.error = "Action not supported"]
                 /\ Log("unsupported")
                 /\ UNCHANGED <<tx, nTx>>
       /\ UNCHANGED <<wallet, chainBalance, confirmed, cancelledCmds, userSubmits,
                      voiceVars, nlpVars, utilVars>>

\* handleVoiceError(errorMessage): the recorder reports an error.
HandleVoiceError ==
    /\ page' = [page EXCEPT !.error = "Voice error", !.currentCommand = 0,
                            !.showConfirmation = FALSE]
    /\ UNCHANGED <<wallet, ledgerVars, cmdVars, voiceVars, nlpVars, utilVars>>

\* The confirmation modal is rendered.
ModalShown == page.showConfirmation /\ page.currentCommand # 0

\* handleConfirmTransaction: the user presses Confirm & Send in the modal.
HandleConfirmTransaction ==
    /\ ModalShown
    /\ confirmed' = confirmed \cup {page.currentCommand}
    /\ userSubmits' = userSubmits + 1
    /\ handleSendTransaction(page, CurrentRender, page.currentCommand,
                             cmd[page.currentCommand].intent)
    /\ UNCHANGED <<wallet, chainBalance, cmd, nCmd, cancelledCmds, voiceVars, nlpVars, utilVars>>

\* handleCancelConfirmation: the user presses Cancel, or the overlay.
HandleCancelConfirmation ==
    /\ ModalShown
    /\ cancelledCmds' = cancelledCmds \cup {page.currentCommand}
    /\ page' = [page EXCEPT !.showConfirmation = FALSE, !.currentCommand = 0,
                            !.error = "Transaction cancelled"]
    /\ UNCHANGED <<wallet, ledgerVars, cmd, nCmd, confirmed, userSubmits, voiceVars, nlpVars, utilVars>>

\* ---- useWallet ----

\* connect, up to its first await.
\* connect, up to its first await; it is called by the user or by the
\* auto-connect effect.  The render that follows gives connect a new identity.
Connect ==
    /\ ~wallet.isConnected
    /\ ~wallet.isConnecting
    /\ wallet' = [wallet EXCEPT !.isConnecting = TRUE, !.error = "",
                                !.arcServiceRef = 1, !.effectDue = TRUE]
    /\ UNCHANGED <<page, ledgerVars, cmdVars, voiceVars, nlpVars, utilVars>>

\* connect, after getAddress and getWalletBalance: they resolve, and the
\* refresh interval is set up, or one rejects.
ConnectDone(ok) ==
    /\ wallet.isConnecting
    /\ wallet' = IF ok
                   THEN [wallet EXCEPT !.address = 1, !.balance = <<chainBalance>>,
                                       !.isConnected = TRUE, !.isConnecting = FALSE,
                                       !.refreshIntervalRef =
                                           IF autoRefreshInterval > 0 THEN 1 ELSE @,
                                       !.intervalArmed =
                                           IF autoRefreshInterval > 0 THEN TRUE ELSE @,
                                       !.effectDue = TRUE]
                   ELSE [wallet EXCEPT !.error = "Failed to connect wallet",
                                       !.isConnecting = FALSE, !.effectDue = TRUE]
    /\ UNCHANGED <<page, ledgerVars, cmdVars, voiceVars, nlpVars, utilVars>>

\* disconnect
Disconnect ==
    /\ wallet' = [wallet EXCEPT !.isConnected = FALSE, !.address = 0,
                                !.balance = <<>>, !.error = "",
                                !.arcServiceRef = 0,
                                !.refreshIntervalRef = 0,
                                !.intervalArmed = IF wallet.refreshIntervalRef # 0
                                                    THEN FALSE ELSE @,
                                !.effectDue = @ \/ wallet.isConnected]
    /\ UNCHANGED <<page, ledgerVars, cmdVars, voiceVars, nlpVars, utilVars>>

\* The effect with dependencies [autoConnect, connect] runs again after a
\* render that changed isConnected or isConnecting, and with them connect:
\* its cleanup clears the interval the ref names and leaves the ref.  The
\* call of connect the effect then makes with autoConnect is a Connect step.
EffectRerun ==
    /\ wallet.effectDue
    /\ wallet' = [wallet EXCEPT !.effectDue = FALSE,
                                !.intervalArmed = IF wallet.refreshIntervalRef # 0
                                                    THEN FALSE ELSE @]
    /\ UNCHANGED <<page, ledgerVars, cmdVars, voiceVars, nlpVars, utilVars>>

\* refreshBalance of a render that saw isConnected = seen, called on the
\* hook's state W: up to the await of getWalletBalance, or its early return.
refreshBalance(W, seen) ==
    IF ~seen \/ W.arcServiceRef = 0 THEN W
    ELSE [W EXCEPT !.error = "", !.pendingRefresh = @ + 1]

\* isConnected as the render saw it in which the running connect was
\* created: connect returns at once when it is true.
ConnectSawConnected == FALSE

\* The interval set up by connect fires: it calls the refreshBalance that
\* connect closed over.
IntervalTick ==
    /\ wallet.intervalArmed
    /\ wallet.ticks < MaxIntervalTicks
    /\ wallet.pendingRefresh < MaxLoads
    /\ wallet' = [refreshBalance(wallet, ConnectSawConnected) EXCEPT !.ticks = @ + 1]
    /\ UNCHANGED <<page, ledgerVars, cmdVars, voiceVars, nlpVars, utilVars>>

\* refreshBalance of the current render is called.
RefreshBalance ==
    /\ wallet.isConnected
    /\ wallet.arcServiceRef # 0
    /\ wallet.pendingRefresh < MaxLoads
    /\ wallet' = refreshBalance(wallet, wallet.isConnected)
    /\ UNCHANGED <<page, ledgerVars, cmdVars, voiceVars, nlpVars, utilVars>>

\* A getWalletBalance call of refreshBalance resolves or rejects.
RefreshDone(ok) ==
    /\ wallet.pendingRefresh > 0
    /\ wallet' = IF ok
                   THEN [wallet EXCEPT !.pendingRefresh = @ - 1,
                                       !.balance = <<chainBalance>>]
                   ELSE [wallet EXCEPT !.pendingRefresh = @ - 1,
                                       !.error = "Failed to refresh balance"]
    /\ UNCHANGED <<page, ledgerVars, cmdVars, voiceVars, nlpVars, utilVars>>

\* The arguments sendTransaction is called with: a well-formed address with
\* every amount, and a malformed one with an amount that is fine, one above
\* the balance and one above the maximum.
SendInputs ==
    {<<"valid", a>> : a \in Amounts}
      \cup {<<"invalid", a>> : a \in {Half, InitBalance + Half, MaxAmount + 1}}

\* The error of the first check in the try block of sendTransaction that
\* fails, or "none".
WalletSendFailure(to, amount) ==
    IF ~IsAddress(to) THEN "Invalid recipient address"
    ELSE IF validateAmount(amount) # "ok" THEN validateAmount(amount)
    ELSE IF wallet.balance # <<>> /\ wallet.balance[1] < amount
           THEN "Insufficient USDC balance"
    ELSE "none"

\* sendTransaction(to, amount): up to the await of sendUSDC, or through its
\* catch block when a check fails.
SendTransaction(to, amount) ==
    LET connected == wallet.isConnected /\ wallet.arcServiceRef # 0
        msg == WalletSendFailure(to, amount)
        call == [NoTx EXCEPT !.via = "wallet", !.to = to, !.amount = amount,
                             !.walletOk = connected,
                             !.cached = IF wallet.balance = <<>> THEN 0
                                        ELSE wallet.balance[1]]
    IN /\ nTx < MaxTx
       /\ nTx' = nTx + 1
       /\ userSubmits' = userSubmits + 1
       /\ IF ~connected
            THEN /\ tx' = [tx EXCEPT ![nTx + 1] =
                             [call EXCEPT !.pc = "done", !.reported = "Wallet not connected"]]
                 /\ UNCHANGED wallet
            ELSE IF msg # "none"
              THEN /\ tx' = [tx EXCEPT ![nTx + 1] =
                               [call EXCEPT !.pc = "done", !.reported = msg]]
                   /\ wallet' = [wallet EXCEPT !.error = msg]
              ELSE /\ tx' = [tx EXCEPT ![nTx + 1] = [call EXCEPT !.pc = "sendUSDC"]]
                   /\ wallet' = [wallet EXCEPT !.error = ""]
       /\ UNCHANGED <<page, chainBalance, cmd, nCmd, confirmed, cancelledCmds, voiceVars, nlpVars, utilVars>>

\* ---- ArcService, and the rest of the two senders ----

\* A catch block that submits again after an error that followed the transfer
\* call.
SubmitFailedResubmits(T, k, msg) ==
    /\ tx' = [T EXCEPT ![k] = [@ EXCEPT !.pc = IF T[k].calls > 0 THEN "sendUSDC"
                                                                 ELSE "done",
                                        !.reported = msg]]
    /\ IF tx[k].via = "page"
         THEN /\ page' = [page EXCEPT !.error = msg]
              /\ UNCHANGED wallet
         ELSE /\ wallet' = [wallet EXCEPT !.error = msg]
              /\ UNCHANGED page

\* SubmitFailed with a page whose catch block also adds the transaction to
\* its list.
SubmitFailedRecords(T, k, msg) ==
    /\ tx' = [T EXCEPT ![k] = [@ EXCEPT !.pc = "done", !.reported = msg]]
    /\ IF tx[k].via = "page"
         THEN /\ page' = [page EXCEPT !.error = msg, !.isLoadingTransaction = FALSE,
                                      !.currentCommand = 0,
                                      !.transactions = <<k>> \o @]
              /\ UNCHANGED wallet
         ELSE /\ wallet' = [wallet EXCEPT !.error = msg]
              /\ UNCHANGED page

\* An error reaches the catch block of the sender of call k; T is the calls as
\* the failing step leaves them.  The page sets its error and, in its finally
\* block, clears the loading flag and the command; the hook sets its error and
\* rethrows.
SubmitFailed(T, k, msg) ==
    /\ tx' = [T EXCEPT ![k] = [@ EXCEPT !.pc = "done", !.reported = msg]]
    /\ IF tx[k].via = "page"
         THEN /\ page' = [page EXCEPT !.error = msg, !.isLoadingTransaction = FALSE,
                                      !.currentCommand = 0]
              /\ UNCHANGED wallet
         ELSE /\ wallet' = [wallet EXCEPT !.error = msg]
              /\ UNCHANGED page

\* An error thrown in a try block of ArcService, by its own checks or by the
\* provider: its message and its code.
LedgerError(message, code) == [message |-> message, code |-> code]

\* The errors of the model: the balance check of sendUSDC, the node refusing
\* a transfer for lack of native funds or for another reason, the receipt
\* with status 0, and a wait that fails.
InsufficientUSDC == LedgerError("Insufficient USDC balance", "")
InsufficientFunds == LedgerError("insufficient funds for intrinsic transaction cost",
                                 "INSUFFICIENT_FUNDS")
Rejected == LedgerError("rejected", "UNKNOWN_ERROR")
Reverted == LedgerError("Transaction reverted", "")
WaitFailed == LedgerError("timeout", "TIMEOUT")

\* error.message.includes("insufficient funds")
IncludesInsufficientFunds(message) ==
    message = "insufficient funds for intrinsic transaction cost"

\* The catch block of sendUSDC: the message of the error it throws.
sendUSDCCatch(err) ==
    IF IncludesInsufficientFunds(err.message) THEN "Insufficient funds for gas"
    ELSE IF err.code = "INSUFFICIENT_FUNDS" THEN "Insufficient USDC balance"
    ELSE "Transaction failed: " \o err.message

\* The catch block of waitForTransaction: the message of the error it throws.
waitForTransactionCatch(err) == "Transaction confirmation failed"

SendOutcomes == {"insufficient", "accepted", "rejected", "noGas"}

\* sendUSDC of call k, after it has read the decimals and the balance of the
\* account: it throws on a balance below the amount, and calls
\* usdcContract.transfer otherwise, which the node accepts, or rejects for
\* lack of native funds or for another reason.
SendUSDCTransfer(k, outcome) ==
    /\ tx[k].pc = "sendUSDC"
    /\ LET T == [tx EXCEPT ![k] = [@ EXCEPT !.calls = @ + 1,
                                            !.balAtCall = chainBalance]]
       IN CASE outcome = "insufficient" ->
                 /\ chainBalance < tx[k].amount
                 /\ SubmitFailed(tx, k, sendUSDCCatch(InsufficientUSDC))
            [] outcome = "rejected" ->
                 /\ chainBalance >= tx[k].amount
                 /\ SubmitFailed(T, k, sendUSDCCatch(Rejected))
            [] outcome = "noGas" ->
                 /\ chainBalance >= tx[k].amount
                 /\ SubmitFailed(T, k, sendUSDCCatch(InsufficientFunds))
            [] outcome = "accepted" ->
                 /\ chainBalance >= tx[k].amount
                 /\ IF tx[k].via = "wallet" /\ wallet.arcServiceRef = 0
                      THEN SubmitFailed(T, k, "Cannot read properties of null")
                      ELSE /\ tx' = [T EXCEPT ![k].pc = "waiting"]
                           /\ UNCHANGED <<page, wallet>>
    /\ UNCHANGED <<chainBalance, nTx, cmdVars, voiceVars, nlpVars, utilVars>>

WaitOutcomes == {"confirmed", "reverted", "failed", "lost"}

\* waitForTransaction of call k ends: the transfer is mined and the receipt
\* arrives ("confirmed"); the receipt has status 0 ("reverted"); the wait
\* failed with the transfer not mined ("failed"); or the wait failed though
\* the transfer was mined ("lost").
\* After a receipt the page prepends the transaction and calls loadBalance,
\* the hook calls refreshBalance.
WaitForTransaction(k, outcome) ==
    /\ tx[k].pc = "waiting"
    /\ CASE outcome = "confirmed" ->
              /\ chainBalance >= tx[k].amount
              /\ chainBalance' = chainBalance - tx[k].amount
              /\ IF tx[k].via = "page"
                   THEN /\ page' = [page EXCEPT !.transactions = <<k>> \o @]
                        /\ tx' = [tx EXCEPT ![k].pc = "reloading"]
                        /\ UNCHANGED wallet
                   ELSE IF wallet.arcServiceRef = 0
                     THEN /\ tx' = [tx EXCEPT ![k].pc = "done"]
                          /\ UNCHANGED <<page, wallet>>
                     ELSE /\ tx' = [tx EXCEPT ![k].pc = "reloading"]
                          /\ wallet' = [wallet EXCEPT !.error = ""]
                          /\ UNCHANGED page
         [] outcome = "reverted" ->
              /\ SubmitFailed(tx, k, waitForTransactionCatch(Reverted))
              /\ UNCHANGED chainBalance
         [] outcome = "failed" ->
              /\ SubmitFailed(tx, k, waitForTransactionCatch(WaitFailed))
              /\ UNCHANGED chainBalance
         [] outcome = "lost" ->
              /\ chainBalance >= tx[k].amount
              /\ chainBalance' = chainBalance - tx[k].amount
              /\ SubmitFailed(tx, k, waitForTransactionCatch(WaitFailed))
    /\ UNCHANGED <<nTx, cmdVars, voiceVars, nlpVars, utilVars>>

\* The balance reload that follows a confirmed transfer ends.  The page then
\* sets its success message and, in its finally block, clears the loading flag
\* and the command.
ReloadDone(k, ok) ==
    /\ tx[k].pc = "reloading"
    /\ tx' = [tx EXCEPT ![k].pc = "done"]
    /\ IF tx[k].via = "page"
         THEN /\ page' = [page EXCEPT !.balance = IF ok THEN chainBalance ELSE @,
                                      !.error = IF ok THEN @ ELSE "Failed to load balance",
                                      !.success = <<"sent", tx[k].amount>>,
                                      !.isLoadingTransaction = FALSE,
                                      !.currentCommand = 0]
              /\ UNCHANGED wallet
         ELSE /\ wallet' = [wallet EXCEPT !.balance = IF ok THEN <<chainBalance>> ELSE @,
                                          !.error = IF ok THEN @ ELSE "Failed to refresh balance"]
              /\ UNCHANGED page
    /\ UNCHANGED <<chainBalance, nTx, cmdVars, voiceVars, nlpVars, utilVars>>

\* The steps of ArcService and of the senders that follow a submission.
NextLedger ==
    \/ \E k \in TxIds, o \in SendOutcomes : SendUSDCTransfer(k, o)
    \/ \E k \in TxIds, o \in WaitOutcomes : WaitForTransaction(k, o)
    \/ \E k \in TxIds, ok \in BOOLEAN : ReloadDone(k, ok)

NextPage ==
    \/ InitializeWallet
    \/ \E ok \in BOOLEAN : PageLoadDone(ok)
    \/ HandleRefresh
    \/ \E i \in DeliveredIntents : HandleVoiceCommandProcessed(i)
    \/ HandleVoiceError
    \/ HandleConfirmTransaction
    \/ HandleCancelConfirmation
    \/ NextLedger

NextWallet ==
    \/ Connect
    \/ \E ok \in BOOLEAN : ConnectDone(ok)
    \/ Disconnect
    \/ EffectRerun
    \/ IntervalTick
    \/ RefreshBalance
    \/ \E ok \in BOOLEAN : RefreshDone(ok)
    \/ \E in \in SendInputs : SendTransaction(in[1], in[2])
    \/ NextLedger

\* The page and the hook, mounted, before their mount effects have run; the
\* voice hook idle.
InitSpecTx ==
    /\ InitHook
    /\ autoRetry = FALSE
    /\ budget = [sessions |-> 0, runs |-> 0, inflight |-> 0]
    /\ InitTx
    /\ InitNlp
    /\ InitUtil

SpecPage == InitSpecTx /\ [][NextPage]_vars

SpecWallet == InitSpecTx /\ [][NextWallet]_vars

\* ---- the intent side: the steps ----

\* A call of validatePaymentIntent(i).
Validate ==
    /\ validation.pc = "none"
    /\ nlp.pc = "none"
    /\ \E i \in Intents :
          validation' = [pc |-> "returned", intent |-> i,
                         result |-> validatePaymentIntent(i)]
    /\ UNCHANGED <<nlp, voiceVars, txVars, utilVars>>

\* The handler, up to its first await: the method and the text are checked,
\* the text is sanitized, and the extractor of the mode is called.
Request ==
    /\ nlp.pc = "none"
    /\ validation.pc = "none"
    /\ \E method \in {"POST", "GET"}, given \in BOOLEAN, text \in Texts, demo \in BOOLEAN :
          LET sanitizedText == sanitizeInput(text)
              respond(r) == [nlp EXCEPT !.pc = "responded", !.res = r]
          IN nlp' =
               IF method # "POST" THEN respond(ErrorResponse(405, "METHOD_NOT_ALLOWED"))
               ELSE IF ~given \/ text = <<>> THEN respond(ErrorResponse(400, "MISSING_TEXT"))
               ELSE IF Len(sanitizedText) = 0 THEN respond(ErrorResponse(400, "INVALID_TEXT"))
               ELSE [nlp EXCEPT !.pc = IF demo THEN "demo" ELSE "extractIntent",
                                !.demo = demo, !.text = sanitizedText]
    /\ UNCHANGED <<validation, voiceVars, txVars, utilVars>>

\* Demo mode: the result of the demo service is the response.
DemoResponse ==
    /\ nlp.pc = "demo"
    /\ nlp' = [nlp EXCEPT !.pc = "responded", !.extracted = DemoIntent(nlp.text),
                          !.res = Response(200, TRUE, DemoIntent(nlp.text), "")]
    /\ UNCHANGED <<validation, voiceVars, txVars, utilVars>>

\* The validation step of the handler.
Validated(i) ==
    IF ~validatePaymentIntent(i).valid
      THEN [i EXCEPT !.isValid = FALSE,
                     !.validationErrors = validatePaymentIntent(i).errors]
      ELSE i

\* The rest of the handler, for an intent extracted by either extractor.
Respond(ai, i) ==
    nlp' = [nlp EXCEPT !.pc = "responded", !.ai = ai, !.extracted = i,
                       !.res = Response(200, TRUE, Validated(i), "")]

\* extractIntent returns the intent i.
AiIntent(i) ==
    /\ nlp.pc = "extractIntent"
    /\ Respond("ok", i)
    /\ UNCHANGED <<validation, voiceVars, txVars, utilVars>>

\* extractIntent returns an intent whose participants cannot be iterated (a
\* number, or a list with a null): validatePaymentIntent throws, and the
\* catch block of the handler answers.
AiIntentMalformed ==
    /\ nlp.pc = "extractIntent"
    /\ nlp' = [nlp EXCEPT !.pc = "responded", !.ai = "malformed",
                          !.res = ErrorResponse(500, "NLP_PROCESSING_FAILED")]
    /\ UNCHANGED <<validation, voiceVars, txVars, utilVars>>

\* extractIntent throws, had the handler let the error reach its catch block.
AiFailureUncaught(failure) ==
    /\ nlp.pc = "extractIntent"
    /\ nlp' = [nlp EXCEPT !.pc = "responded", !.ai = failure,
                          !.res = IF failure = "noCredentials"
                                    THEN ErrorResponse(500, "API_CONFIGURATION_ERROR")
                                    ELSE ErrorResponse(500, "NLP_PROCESSING_FAILED")]
    /\ UNCHANGED <<validation, voiceVars, txVars, utilVars>>

\* extractIntent throws: the handler calls the fallback extractor.
AiFailure(failure) ==
    /\ nlp.pc = "extractIntent"
    /\ Respond(failure, extractIntentFallback(nlp.text))
    /\ UNCHANGED <<validation, voiceVars, txVars, utilVars>>

NextNlp ==
    \/ Validate
    \/ Request
    \/ DemoResponse
    \/ \E i \in AiIntents(nlp.text) : AiIntent(i)
    \/ AiIntentMalformed
    \/ \E failure \in AiFailures : AiFailure(failure)

\* The hook and the page as constructed, no request made.
InitSpecNlp ==
    /\ InitHook
    /\ autoRetry = FALSE
    /\ budget = [sessions |-> 0, runs |-> 0, inflight |-> 0]
    /\ InitTx
    /\ InitNlp
    /\ InitUtil

SpecNlp == InitSpecNlp /\ [][NextNlp]_vars

\* ---- the utilities ----

\* retryWithBackoff(fn, maxRetries, delay) is called: the loop is entered, or
\* with maxRetries = 0 skipped, and lastError is thrown as declared.
RetryWithBackoff(retries, delay) ==
    /\ retry.pc \in {"none", "returned", "threw"}
    /\ retry' = IF 0 < retries
                  THEN [NoRetryCall EXCEPT !.pc = "fn", !.maxRetries = retries,
                                           !.delay = delay]
                  ELSE [NoRetryCall EXCEPT !.pc = "threw", !.maxRetries = retries,
                                           !.delay = delay]
    /\ UNCHANGED <<sufficiency, voiceRecorder, voiceApi, rateLimit, voiceVars, txVars, nlpVars>>

\* The fn call of the try block resolves: its result is returned.
FnResolves ==
    /\ retry.pc = "fn"
    /\ retry' = [retry EXCEPT !.pc = "returned", !.calls = @ + 1,
                              !.result = retry.calls + 1]
    /\ UNCHANGED <<sufficiency, voiceRecorder, voiceApi, rateLimit, voiceVars, txVars, nlpVars>>

\* FnRejects with a catch block that sleeps the same delay before every pass.
FnRejectsConstantDelay ==
    /\ retry.pc = "fn"
    /\ retry' = IF retry.i < retry.maxRetries - 1
                  THEN [retry EXCEPT !.pc = "sleep", !.calls = @ + 1,
                                     !.lastError = retry.calls + 1,
                                     !.slept = Append(@, retry.delay)]
                  ELSE [retry EXCEPT !.pc = "threw", !.calls = @ + 1,
                                     !.lastError = retry.calls + 1,
                                     !.thrown = retry.calls + 1]
    /\ UNCHANGED <<sufficiency, voiceRecorder, voiceApi, rateLimit, voiceVars, txVars, nlpVars>>

\* The fn call rejects: the catch block keeps the error and sleeps unless
\* this was the last pass of the loop, after which lastError is thrown.
FnRejects ==
    /\ retry.pc = "fn"
    /\ retry' = IF retry.i < retry.maxRetries - 1
                  THEN [retry EXCEPT !.pc = "sleep", !.calls = @ + 1,
                                     !.lastError = retry.calls + 1,
                                     !.slept = Append(@, retry.delay * Pow2(retry.i))]
                  ELSE [retry EXCEPT !.pc = "threw", !.calls = @ + 1,
                                     !.lastError = retry.calls + 1,
                                     !.thrown = retry.calls + 1]
    /\ UNCHANGED <<sufficiency, voiceRecorder, voiceApi, rateLimit, voiceVars, txVars, nlpVars>>

\* The sleep of the catch block ends: the next pass of the loop.
SleepDone ==
    /\ retry.pc = "sleep"
    /\ retry' = [retry EXCEPT !.pc = "fn", !.i = @ + 1]
    /\ UNCHANGED <<sufficiency, voiceRecorder, voiceApi, rateLimit, voiceVars, txVars, nlpVars>>

\* A call of validateSufficientBalance.
ValidateSufficientBalance ==
    \E balance \in BalanceStrings, amount \in AmountStrings, includeGasBuffer \in BOOLEAN :
        /\ sufficiency' = [pc |-> "returned", balance |-> balance, amount |-> amount,
                           includeGasBuffer |-> includeGasBuffer,
                           result |-> validateSufficientBalance(balance, amount,
                                                                includeGasBuffer)]
        /\ UNCHANGED <<retry, voiceRecorder, voiceApi, rateLimit, voiceVars, txVars, nlpVars>>

NextUtil ==
    \/ \E retries \in RetryCounts, delay \in Delays : RetryWithBackoff(retries, delay)
    \/ FnResolves
    \/ FnRejects
    \/ SleepDone
    \/ ValidateSufficientBalance

\* The hook and the page as constructed, no utility called.
InitSpecUtil ==
    /\ InitHook
    /\ autoRetry = FALSE
    /\ budget = [sessions |-> 0, runs |-> 0, inflight |-> 0]
    /\ InitTx
    /\ InitNlp
    /\ InitUtil

SpecUtil == InitSpecUtil /\ [][NextUtil]_vars

(***************************************************************************)
(* The VoiceRecorder component, which records and runs the pipeline        *)
(* itself (src/components/voice/VoiceRecorder.tsx).  The record button     *)
(* calls stopRecording while listening and startRecording otherwise, and   *)
(* is disabled while requesting or processing, so one startRecording call  *)
(* is in progress at a time.                                               *)
(***************************************************************************)

\* cleanupAudioResources: the stream, the context, the animation frame and
\* the interval timer are released and the refs cleared.
cleanupAudioResources(R) == [R EXCEPT !.stream = FALSE, !.timer = FALSE]

\* The message the component's catch block gives to onError for a rejection
\* of getUserMedia.
RecorderMicErrorMessage(name) ==
    CASE name = "NotAllowedError" -> "micDenied"
      [] name = "NotFoundError" -> "micNotFound"
      [] OTHER -> "startFailedRetry"

\* A click on the record button outside listening: startRecording up to
\* the getUserMedia call.  processAudio of this render, which onstop will
\* call, holds the recordingTime of this render.
RecorderStart ==
    /\ voiceRecorder.state \in {"idle", "complete", "error"}
    /\ voiceRecorder.pc = "none"
    /\ voiceRecorder.starts < MaxRecorderStarts
    /\ voiceRecorder' = [voiceRecorder EXCEPT !.state = "requesting",
                                              !.pc = "acquiring",
                                              !.acquisition = "pending",
                                              !.capRecordingTime = voiceRecorder.recordingTime,
                                              !.starts = @ + 1]
    /\ UNCHANGED <<retry, sufficiency, voiceApi, rateLimit, voiceVars, txVars, nlpVars>>

\* getUserMedia resolves: the rest of the try block.
RecorderMicGranted ==
    /\ voiceRecorder.pc = "acquiring"
    /\ voiceRecorder' = [voiceRecorder EXCEPT !.state = "listening",
                                              !.pc = "recording",
                                              !.acquisition = "granted",
                                              !.stream = TRUE,
                                              !.timer = TRUE,
                                              !.recordingTime = 0]
    /\ UNCHANGED <<retry, sufficiency, voiceApi, rateLimit, voiceVars, txVars, nlpVars>>

\* getUserMedia rejects: the catch block of startRecording.
RecorderMicRejected(name) ==
    /\ voiceRecorder.pc = "acquiring"
    /\ voiceRecorder' = cleanupAudioResources(
                            [voiceRecorder EXCEPT !.state = "error",
                                                  !.pc = "none",
                                                  !.acquisition = name,
                                                  !.onError = RecorderMicErrorMessage(name),
                                                  !.onErrorCalls = @ + 1])
    /\ UNCHANGED <<retry, sufficiency, voiceApi, rateLimit, voiceVars, txVars, nlpVars>>

\* One firing of the interval timer: setRecordingTime(prev => prev + 1).
RecorderTick ==
    /\ voiceRecorder.timer
    /\ voiceRecorder.recordingTime < MaxTicks
    /\ voiceRecorder' = [voiceRecorder EXCEPT !.recordingTime = @ + 1]
    /\ UNCHANGED <<retry, sufficiency, voiceApi, rateLimit, voiceVars, txVars, nlpVars>>

\* stopRecording, from the button while listening or from the max-duration
\* timer while the recorder records.
RecorderStop ==
    /\ voiceRecorder.pc = "recording"
    /\ voiceRecorder' = [voiceRecorder EXCEPT !.state = "processing",
                                              !.pc = "onstop",
                                              !.timer = FALSE]
    /\ UNCHANGED <<retry, sufficiency, voiceApi, rateLimit, voiceVars, txVars, nlpVars>>

\* What processAudio does when it fails: its catch and finally blocks.
RecorderFail(R, message) ==
    cleanupAudioResources([R EXCEPT !.state = "error",
                                    !.pc = "none",
                                    !.onError = message,
                                    !.onErrorCalls = @ + 1,
                                    !.resetTimers = @ + 1])

\* The recorder's onstop event: processAudio up to the first request.
RecorderOnStop ==
    /\ voiceRecorder.pc = "onstop"
    /\ voiceRecorder' = IF voiceRecorder.capRecordingTime * 1000 < minRecordingDuration
                          THEN RecorderFail(voiceRecorder, "tooShort")
                          ELSE [voiceRecorder EXCEPT !.pc = "pipeline"]
    /\ UNCHANGED <<retry, sufficiency, voiceApi, rateLimit, voiceVars, txVars, nlpVars>>

\* The two requests of processAudio have been answered.
RecorderPipeline(outcome) ==
    /\ voiceRecorder.pc = "pipeline"
    /\ voiceRecorder' = IF outcome = "ok"
                          THEN cleanupAudioResources(
                                   [voiceRecorder EXCEPT !.state = "complete",
                                                         !.pc = "none",
                                                         !.onCommandProcessed = @ + 1,
                                                         !.resetTimers = @ + 1])
                          ELSE RecorderFail(voiceRecorder, outcome)
    /\ UNCHANGED <<retry, sufficiency, voiceApi, rateLimit, voiceVars, txVars, nlpVars>>

\* A reset timer of processAudio fires.
RecorderResetTimerFire ==
    /\ voiceRecorder.resetTimers > 0
    /\ voiceRecorder' = [voiceRecorder EXCEPT !.state = "idle",
                                              !.recordingTime = 0,
                                              !.resetTimers = @ - 1]
    /\ UNCHANGED <<retry, sufficiency, voiceApi, rateLimit, voiceVars, txVars, nlpVars>>

\* The Cancel button, shown while listening: stopRecording, cleanup, idle.
RecorderCancel ==
    /\ voiceRecorder.state = "listening"
    /\ voiceRecorder' = cleanupAudioResources(
                            [voiceRecorder EXCEPT !.state = "idle",
                                                  !.pc = IF @ = "recording"
                                                           THEN "onstop" ELSE @,
                                                  !.recordingTime = 0])
    /\ UNCHANGED <<retry, sufficiency, voiceApi, rateLimit, voiceVars, txVars, nlpVars>>

RecorderOutcomes == {"ok", "transcriptionFailed", "intentFailed", "invalid"}

NextRecorder ==
    \/ RecorderStart
    \/ RecorderMicGranted
    \/ \E name \in MicErrors : RecorderMicRejected(name)
    \/ RecorderTick
    \/ RecorderStop
    \/ RecorderOnStop
    \/ \E outcome \in RecorderOutcomes : RecorderPipeline(outcome)
    \/ RecorderResetTimerFire
    \/ RecorderCancel

SpecRecorder == InitSpecUtil /\ [][NextRecorder]_vars

(***************************************************************************)
(* The /api/voice handler (the second handler of src/pages/api/nlp.ts)     *)
(* answering the requests of the hook's runs.  A text is identified by the *)
(* sample it was transcribed from.                                          *)
(***************************************************************************)

\* What the speech service does with a request: it returns a text, returns
\* no text, or the call fails: no API key, a rate limit, a timeout, another
\* failure.
ServiceResults == {"text", "empty", "noKey", "rateLimit", "timeout", "failure"}

VoiceApiResponse(status, success, text, errorCode, service, calls) ==
    [status |-> status, success |-> success, transcript |-> text,
     errorCode |-> errorCode, service |-> service, transcribeCalls |-> calls]

\* The handler: the method check, demo mode, the audio file, one call of
\* transcribeAudio, the check of its text, and the catch block.
voiceHandler(method, demo, hasFile, service, blob) ==
    IF method # "POST"
      THEN VoiceApiResponse(405, FALSE, 0, "METHOD_NOT_ALLOWED", "none", 0)
    ELSE IF demo
      THEN VoiceApiResponse(200, TRUE, blob, "", "demo", 0)
    ELSE IF ~hasFile
      THEN VoiceApiResponse(400, FALSE, 0, "MISSING_AUDIO_FILE", "none", 0)
    ELSE CASE service = "text" -> VoiceApiResponse(200, TRUE, blob, "", service, 1)
           [] service = "empty" ->
                VoiceApiResponse(400, FALSE, 0, "NO_SPEECH_DETECTED", service, 1)
           [] service = "noKey" ->
                VoiceApiResponse(500, FALSE, 0, "API_KEY_ERROR", service, 1)
           [] service = "rateLimit" ->
                VoiceApiResponse(429, FALSE, 0, "RATE_LIMIT_EXCEEDED", service, 1)
           [] service = "timeout" ->
                VoiceApiResponse(408, FALSE, 0, "REQUEST_TIMEOUT", service, 1)
           [] OTHER ->
                VoiceApiResponse(500, FALSE, 0, "VOICE_PROCESSING_FAILED", service, 1)

\* The handler answers the request of run r: a POST with the audio file.
VoiceHandler(r) ==
    /\ run[r].pc = "voice"
    /\ voiceApi[r].status = 0
    /\ \E demo \in BOOLEAN, service \in ServiceResults :
          voiceApi' = [voiceApi EXCEPT
                          ![r] = voiceHandler("POST", demo, TRUE, service, run[r].blob)]
    /\ UNCHANGED <<retry, sufficiency, voiceRecorder, rateLimit, voiceVars, txVars, nlpVars>>

\* processAudioBlob taking every response for a transcript.
ClientOutcomeUnchecked(res) == "ok"

\* What processAudioBlob makes of a response: a status outside 2xx throws
\* the error text of the body, a body without success or transcript throws
\* 'No speech detected in audio'.
ClientOutcome(res) ==
    IF res.status # 200
      THEN IF res.errorCode = "NO_SPEECH_DETECTED" THEN "noSpeech" ELSE "httpError"
    ELSE IF ~res.success \/ res.transcript = 0 THEN "noSpeech"
    ELSE "ok"

\* The response of the handler reaches run r.
VoiceDelivered(r) ==
    /\ voiceApi[r].status # 0
    /\ VoiceResponse(r, ClientOutcome(voiceApi[r]))

\* The request of run r never reaches the handler: fetch rejects.
VoiceUnreachable(r) ==
    /\ voiceApi[r].status = 0
    /\ VoiceResponse(r, "httpError")

\* useVoice() with its default options, one recording, whose sample is
\* processed through retry().
InitPipeline ==
    /\ InitHook
    /\ autoRetry = FALSE
    /\ budget = [sessions |-> 1, runs |-> MaxRuns + 1, inflight |-> MaxRuns + 1]
    /\ InitTx
    /\ InitNlp
    /\ InitUtil

NextPipeline ==
    \/ Render
    \/ StartRecording
    \/ \E s \in Sessions : MicGranted(s)
    \/ \E s \in Sessions : Tick(s)
    \/ StopRecording
    \/ \E s \in Sessions : OnStop(s)
    \/ \E r \in Runs : VoiceHandler(r)
    \/ \E r \in Runs : VoiceDelivered(r)
    \/ \E r \in Runs : VoiceUnreachable(r)
    \/ \E r \in Runs, o \in NlpOutcomes : NlpResponse(r, o)
    \/ IdleTimerFire
    \/ Retry
    \/ Unmount

SpecPipeline == InitPipeline /\ [][NextPipeline]_vars

(***************************************************************************)
(* checkRateLimit and its module-level map (src/unnamed/part_001).  Time   *)
(* is Date.now() in milliseconds; an absent entry has resetTime -1.        *)
(***************************************************************************)

\* The entry a call works on: the entry of an ended window is deleted, and
\* the entry is read or created.
LimiterEntry(L, identifier) ==
    LET limit == L.map[identifier]
        expired == limit # NoEntry /\ L.now > limit.resetTime
    IN IF limit # NoEntry /\ ~expired THEN limit
       ELSE [count |-> 0, resetTime |-> L.now + L.windowMs]

\* What a call does to the limiter L once it has decided to refuse or to
\* count the call.
LimiterCall(L, identifier, refused) ==
    LET limit == L.map[identifier]
        expired == limit # NoEntry /\ L.now > limit.resetTime
        cleaned == [L.map EXCEPT ![identifier] = IF expired THEN NoEntry ELSE limit]
        entry == LimiterEntry(L, identifier)
        seen == L.granted[identifier]
    IN IF refused
         THEN [L EXCEPT !.map = cleaned,
                        !.result = [identifier |-> identifier, allowed |-> FALSE,
                                    remaining |-> 0, resetTime |-> entry.resetTime]]
         ELSE [L EXCEPT !.map = [cleaned EXCEPT ![identifier] =
                                     [entry EXCEPT !.count = @ + 1]],
                        !.result = [identifier |-> identifier, allowed |-> TRUE,
                                    remaining |-> L.maxRequests - (entry.count + 1),
                                    resetTime |-> entry.resetTime],
                        !.granted = [@ EXCEPT ![identifier] =
                                        IF seen.resetTime = entry.resetTime
                                          THEN [seen EXCEPT !.n = @ + 1]
                                          ELSE [resetTime |-> entry.resetTime, n |-> 1]]]

\* checkRateLimit refusing only a count above maxRequests.
checkRateLimitAbove(L, identifier) ==
    LimiterCall(L, identifier, LimiterEntry(L, identifier).count > L.maxRequests)

\* checkRateLimit(identifier, maxRequests, windowMs) on the limiter L.
checkRateLimit(L, identifier) ==
    LimiterCall(L, identifier, LimiterEntry(L, identifier).count >= L.maxRequests)

\* A call of checkRateLimit.
CheckRateLimit(identifier) ==
    /\ rateLimit' = checkRateLimit(rateLimit, identifier)
    /\ UNCHANGED <<retry, sufficiency, voiceRecorder, voiceApi, voiceVars, txVars, nlpVars>>

\* A millisecond passes.
ClockTick ==
    /\ rateLimit.now < MaxNow
    /\ rateLimit' = [rateLimit EXCEPT !.now = @ + 1]
    /\ UNCHANGED <<retry, sufficiency, voiceRecorder, voiceApi, voiceVars, txVars, nlpVars>>

NextRateLimit ==
    \/ \E identifier \in Identifiers : CheckRateLimit(identifier)
    \/ ClockTick

\* The module loaded, with callers that pass one maxRequests and one windowMs.
InitRateLimit ==
    /\ InitHook
    /\ autoRetry = FALSE
    /\ budget = [sessions |-> 0, runs |-> 0, inflight |-> 0]
    /\ InitTx
    /\ InitNlp
    /\ retry = NoRetryCall
    /\ sufficiency = NoSufficiencyCall
    /\ voiceRecorder = NoRecorder
    /\ voiceApi = [r \in Runs |-> NoVoiceCall]
    /\ \E maxRequests \in 0..MaxLimit, windowMs \in 0..MaxWindow :
          rateLimit = NewRateLimiter(maxRequests, windowMs)

SpecRateLimit == InitRateLimit /\ [][NextRateLimit]_vars

(***************************************************************************)
(* The claims about the useVoice hook.                                     *)
(***************************************************************************)

\* The recorder a session created has stopped after this many whole seconds.
Stopped(s) == sess[s].elapsed >= 0

\* The recorder's onstop handler has run for the session.
Handled(s) == sess[s].pc = "stopped"

\* C1: a session whose elapsed time at stop is below minRecordingDuration
\* never has its sample passed to the pipeline, and once its onstop handler
\* has run it has been reported as too short.
C1_MinDurationGate ==
    \A s \in Sessions :
        (Stopped(s) /\ sess[s].elapsed * 1000 < minRecordingDuration)
            => /\ s \notin pipelineFor
               /\ Handled(s) => s \in tooShortFor

\* C2: a session whose elapsed time at stop is at least minRecordingDuration
\* (and at most maxRecordingDuration) is, when its onstop handler has run,
\* passed to the pipeline and not rejected as too short.
C2_DurationOkProcessed ==
    \A s \in Sessions :
        (Handled(s) /\ sess[s].elapsed * 1000 >= minRecordingDuration
                    /\ sess[s].elapsed * 1000 <= maxRecordingDuration)
            => /\ s \in pipelineFor
               /\ s \notin tooShortFor

\* A session that holds or is acquiring a microphone, a recorder or a timer.
Live(s) ==
    \/ sess[s].pc = "acquiring"
    \/ sess[s].stream
    \/ sess[s].recorder = "recording"
    \/ sess[s].timer

\* C3: under any interleaving of startRecording calls at most one recording
\* session (stream + recorder + timer) exists at any time.
C3_AtMostOneSession == Cardinality({s \in Sessions : Live(s)}) <= 1

\* C4: after cancelRecording, and until the hook's API is called again, no
\* step (a microphone grant, an onstop handler, a transcription or intent
\* response, a timer) changes state, transcript, intent or commandHistory, or
\* calls onSuccess or onError.
C4_CancelEffective ==
    [][(cancelled /\ cancelled')
          => UNCHANGED <<state, transcript, intent, commandHistory,
                         onSuccessCalls, onErrorCalls>>]_vars

\* The session is over: its start failed, its onstop handler has run, it was
\* cancelled, or the component was unmounted.
Ended(s) ==
    /\ sess[s].pc # "none"
    /\ \/ sess[s].pc \in {"failed", "stopped"}
       \/ cancelled
       \/ ~mounted

\* C5: a session that is over holds no microphone stream, no open audio
\* context, no level-sampling loop and no duration timer.
C5_ResourcesReleased ==
    \A s \in Sessions :
        Ended(s) => /\ ~sess[s].stream
                    /\ ~sess[s].ctx
                    /\ ~sess[s].raf
                    /\ ~sess[s].timer

(***************************************************************************)
(* The claims about the confirmation gate and the submission of transfers. *)
(***************************************************************************)

\* Call k has called usdcContract.transfer.
Transferred(k) == tx[k].calls > 0

\* C6: a transfer for an intent with confirmationRequired is submitted only by
\* a call the user's Confirm started for that intent; a command the user
\* cancelled in the modal and did not confirm is never submitted; and a
\* check_balance or view_history command is executed on arrival, whatever its
\* confirmationRequired flag.
C6_ConfirmationGate ==
    /\ \A k \in TxIds :
          (tx[k].via = "page" /\ Transferred(k)
              /\ cmd[tx[k].cmd].intent.confirmationRequired)
            => tx[k].cmd \in confirmed
    /\ \A k \in TxIds :
          (tx[k].via = "page" /\ tx[k].cmd \in cancelledCmds \ confirmed)
            => ~Transferred(k)
    /\ \A c \in CmdIds :
          cmd[c].intent.action \in {"check_balance", "view_history"}
            => cmd[c].handled = "executed"

\* C6 witness: a confirmed intent with confirmationRequired has been
\* transferred, another command was cancelled in the modal, and nothing was
\* submitted for it.
C6_Witness ==
    /\ \E k \in TxIds :
          /\ tx[k].via = "page"
          /\ Transferred(k)
          /\ cmd[tx[k].cmd].intent.confirmationRequired
          /\ tx[k].cmd \in confirmed
    /\ cancelledCmds \ confirmed # {}

\* The transfer of call k is in flight: transfer has been called and the wait
\* for its confirmation has not ended.
InFlight(k) == tx[k].pc = "waiting"

\* C7: at most one transfer of the wallet is in flight at any time.
C7_SingleInFlight == Cardinality({k \in TxIds : InFlight(k)}) <= 1

\* C8: every call of a sender calls the ledger transfer at most once, whatever
\* error follows the transfer call, and there are no more calls that reached
\* the ledger than submissions the user started.
C8_NoResubmission ==
    /\ \A k \in TxIds : tx[k].calls <= 1
    /\ Cardinality({k \in TxIds : Transferred(k)}) <= userSubmits

\* C8 witness: a call has ended with an error after its transfer call.
C8_Witness ==
    \E k \in TxIds :
        /\ tx[k].calls = 1
        /\ tx[k].pc = "done"
        /\ tx[k].reported = "Transaction confirmation failed"

\* C9: a transfer is submitted only when the balance at the call is at least
\* the amount plus the safety buffer.
C9_BalanceBuffer ==
    \A k \in TxIds :
        Transferred(k) => tx[k].balAtCall >= tx[k].amount + SafetyBuffer

\* The precondition an error message reports the failure of.
ErrorClass(msg) ==
    CASE msg \in {"Wallet not initialized", "Wallet not connected"} -> "wallet"
      [] msg \in {"Recipient address is required", "Invalid recipient address",
                  "Transaction failed: Invalid recipient address"} -> "address"
      [] msg \in {"Valid amount is required", "Amount must be greater than zero",
                  "Amount must be at least 0.01 USDC",
                  "Amount cannot exceed 10000 USDC"} -> "amount"
      [] msg \in {"Insufficient balance", "Insufficient USDC balance",
                  "Transaction failed: Insufficient USDC balance"} -> "balance"
      [] OTHER -> "other"

\* The first precondition, in the order wallet, address, amount, balance, that
\* fails for the call t; the balance one is read as balance >= amount.
FirstFailing(t) ==
    IF ~t.walletOk THEN "wallet"
    ELSE IF ~IsAddress(t.to) THEN "address"
    ELSE IF validateAmount(t.amount) # "ok" THEN "amount"
    ELSE IF t.cached < t.amount THEN "balance"
    ELSE "none"

\* A call with a failing precondition has ended, reporting the first failing
\* precondition, without a transfer call.
AbortsInOrder ==
    \A k \in TxIds :
        (tx[k].pc # "none" /\ FirstFailing(tx[k]) # "none")
          => /\ tx[k].pc = "done"
             /\ ErrorClass(tx[k].reported) = FirstFailing(tx[k])
             /\ ~Transferred(k)

\* A step in which a call ends with an error leaves the balance, the address
\* and the connection state of the page and of the hook as they were.
FailureKeepsState ==
    (\E k \in TxIds : tx[k].pc # "done" /\ tx'[k].pc = "done"
                                        /\ tx'[k].reported # "none")
      => /\ page'.balance = page.balance
         /\ page'.walletAddress = page.walletAddress
         /\ page'.arcService = page.arcService
         /\ wallet'.balance = wallet.balance
         /\ wallet'.address = wallet.address
         /\ wallet'.isConnected = wallet.isConnected

\* C10: a call whose precondition fails reports the first failing one in the
\* order wallet, address, amount, balance and never calls the ledger; and no
\* failure of a call changes the balance, address or connection state.
C10_CleanAbort == []AbortsInOrder /\ [][FailureKeepsState]_vars
\* C11: commandHistory never holds more than 10 entries, and it is, newest
\* first, exactly the last min(n, 10) of the n entries added since the last
\* clearHistory call: the oldest entry is the one evicted.
C11_HistoryBound ==
    /\ Len(commandHistory) <= HistoryCap
    /\ Len(commandHistory) = Min(Len(historyLog), HistoryCap)
    /\ \A i \in 1..Len(commandHistory) :
          commandHistory[i] = historyLog[Len(historyLog) - i + 1]

\* An entry has been evicted from a history of successes and failures.
C11_Witness ==
    /\ Len(historyLog) > HistoryCap
    /\ Len(commandHistory) = HistoryCap
    /\ \E i, j \in 1..HistoryCap :
          commandHistory[i].success /\ ~commandHistory[j].success

\* C12: a clearHistory call leaves commandHistory empty whatever it held, an
\* empty one included (a second call gives what the first gave), and changes
\* none of state, transcript, intent, error and recordingTime.
C12_ClearHistoryFramed ==
    [][ClearHistory => /\ commandHistory' = <<>>
                       /\ UNCHANGED <<state, transcript, intent, error, recordingTime>>]_vars

\* The history of a mounted hook is empty after a command succeeded, and the
\* result of that command is still shown.
C12_Witness ==
    /\ mounted
    /\ onSuccessCalls > 0
    /\ commandHistory = <<>>
    /\ state = "complete"
    /\ intent # 0

\* ---- the intent side ----

\* An element of a list of messages.
Has(errors, msg) == \E k \in 1..Len(errors) : errors[k] = msg

\* An amount that is missing, not a number, or not greater than zero.
NoAmount(a) == a.kind # "number" \/ a.th < 0 \/ (a.th = 0 /\ a.sub = 0)

\* The validator was called with a send, split or pay_bill intent without a
\* positive amount, and rejected it with errors.
ValidatorRejectsNoAmount ==
    (/\ validation.pc = "returned"
     /\ validation.intent.action \in {"send", "split", "pay_bill"}
     /\ NoAmount(validation.intent.amount))
      => /\ ~validation.result.valid
         /\ Len(validation.result.errors) > 0

\* /api/nlp answered with a send, split or pay_bill intent without a positive
\* amount.
AnsweredNoAmount ==
    /\ nlp.pc = "responded"
    /\ nlp.res.success
    /\ nlp.res.intent.action \in {"send", "split", "pay_bill"}
    /\ NoAmount(nlp.res.intent.amount)

AnswerMarkedInvalid ==
    /\ ~nlp.res.intent.isValid
    /\ Len(nlp.res.intent.validationErrors) > 0

\* C13 as stated: validatePaymentIntent rejects, with errors, every send,
\* split or pay_bill intent whose amount is missing, not a number or not
\* greater than zero, and /api/nlp returns every such intent with isValid =
\* false and validationErrors populated.
C13_NonPositiveRejected ==
    /\ ValidatorRejectsNoAmount
    /\ AnsweredNoAmount => AnswerMarkedInvalid

\* C13, amended: the same, for the answers /api/nlp gives outside demo mode.
C13_NonPositiveRejectedNoDemo ==
    /\ ValidatorRejectsNoAmount
    /\ (AnsweredNoAmount /\ ~nlp.demo) => AnswerMarkedInvalid

\* Outside demo mode the fallback extractor found no positive amount in a
\* command, and the answer carries the validator's errors.
C13_Witness ==
    /\ AnsweredNoAmount
    /\ ~nlp.demo
    /\ nlp.ai \in AiFailures
    /\ AnswerMarkedInvalid
    /\ Has(nlp.res.intent.validationErrors,
           "Amount is required and must be greater than zero")

\* The address an address string resolves to is the zero address.
DenotesZeroAddress(address) == address.body = "zeros"

\* C14: validatePaymentIntent rejects every send intent whose recipient
\* denotes the zero address, with the error 'Cannot send to zero address',
\* whatever the amount.
C14_ZeroAddressRejected ==
    (/\ validation.pc = "returned"
     /\ validation.intent.action = "send"
     /\ DenotesZeroAddress(validation.intent.recipient))
      => /\ ~validation.result.valid
         /\ Has(validation.result.errors, "Cannot send to zero address")

\* The rules of the validator an intent violates.
RulesViolated(i) ==
    LET amountRules ==
            IF i.action \notin {"send", "split", "pay_bill"} THEN {}
            ELSE IF NoAmount(i.amount) THEN {"positive"}
            ELSE (IF i.amount.th < MinAmount THEN {"minimum"} ELSE {})
                   \cup (IF AboveMax(i.amount) THEN {"maximum"} ELSE {})
                   \cup (IF DecimalPlaces(i.amount) > maxDecimals THEN {"decimals"} ELSE {})
        recipientRules ==
            IF i.action # "send" THEN {}
            ELSE IF i.recipient = NoAddress THEN {"recipient"}
            ELSE (IF ~isAddress(i.recipient) THEN {"shape"} ELSE {})
                   \cup (IF isZeroAddress(i.recipient) THEN {"zero"} ELSE {})
        participantRules ==
            IF i.action # "split" THEN {}
            ELSE (IF Len(i.participants) < 2 THEN {"count"} ELSE {})
                   \cup (IF \E k \in 1..Len(i.participants) :
                                /\ i.participants[k].address # NoAddress
                                /\ ~isAddress(i.participants[k].address)
                           THEN {"participant"} ELSE {})
    IN (IF i.action \notin validActions THEN {"action"} ELSE {})
         \cup amountRules \cup recipientRules \cup participantRules
         \cup (IF i.currency # "USDC" THEN {"currency"} ELSE {})

\* The rules the errors of a result report.
RulesReported(errors) ==
    {rule \in {"action", "positive", "minimum", "maximum", "decimals", "recipient",
               "shape", "zero", "count", "participant", "currency"} :
        CASE rule = "action" -> Has(errors, "Invalid payment action")
          [] rule = "positive" ->
               Has(errors, "Amount is required and must be greater than zero")
          [] rule = "minimum" -> Has(errors, "Amount must be at least 0.01 USDC")
          [] rule = "maximum" -> Has(errors, "Amount cannot exceed 10000 USDC")
          [] rule = "decimals" ->
               Has(errors, "Amount cannot have more than 6 decimal places")
          [] rule = "recipient" ->
               Has(errors, "Recipient address is required for send action")
          [] rule = "shape" -> Has(errors, "Invalid address format")
          [] rule = "zero" -> Has(errors, "Cannot send to zero address")
          [] rule = "count" ->
               \/ Has(errors, "Participants are required for split action")
               \/ Has(errors, "Split action requires at least 2 participants")
          [] rule = "participant" ->
               \E n \in Names : Has(errors, InvalidParticipant(n))
          [] rule = "currency" -> Has(errors, "Only USDC is supported")}

\* C15: the errors validatePaymentIntent returns report every rule the intent
\* violates: no violation hides another.
C15_AllViolationsCollected ==
    validation.pc = "returned"
      => RulesViolated(validation.intent) \subseteq RulesReported(validation.result.errors)

\* C16: an intent validatePaymentIntent accepts has a recognized action and
\* the currency USDC; for send, split and pay_bill an amount between the
\* minimum and the maximum with at most 6 decimal places; for send a
\* recipient that is present, address-shaped and not the zero address; for
\* split at least 2 participants, each address given being address-shaped.
C16_ValidatorSound ==
    (validation.pc = "returned" /\ validation.result.valid)
      => LET i == validation.intent
         IN /\ i.action \in {"send", "request", "split", "pay_bill", "check_balance",
                              "view_history", "cancel"}
            /\ i.currency = "USDC"
            /\ i.action \in {"send", "split", "pay_bill"}
                 => /\ i.amount.kind = "number"
                    /\ i.amount.th >= MinAmount
                    /\ ~AboveMax(i.amount)
                    /\ DecimalPlaces(i.amount) <= maxDecimals
            /\ i.action = "send"
                 => /\ i.recipient # NoAddress
                    /\ isAddress(i.recipient)
                    /\ ~DenotesZeroAddress(i.recipient)
            /\ i.action = "split"
                 => /\ Len(i.participants) >= 2
                    /\ \A k \in 1..Len(i.participants) :
                          i.participants[k].address # NoAddress
                            => isAddress(i.participants[k].address)

\* C16 without the recipients of C14: the zero address written without its
\* prefix.
C16_SoundButForZero ==
    (validation.pc = "returned" /\ validation.intent.recipient # Address(FALSE, "zeros"))
      => C16_ValidatorSound

\* A run of the pipeline gets an answer of /api/nlp whose intent has
\* isValid = false: onSuccess is not called, and the mounted hook ends in
\* state error with the message of the validation errors.
InvalidNotExecuted ==
    \A r \in Runs :
        NlpResponse(r, "invalid")
          => /\ onSuccessCalls' = onSuccessCalls
             /\ intent' = intent
             /\ mounted => (state' = "error" /\ error' = "invalidCommand")

\* onSuccess is called by a run that got an intent with isValid = true, and
\* by nothing else.
SuccessOnlyIfValid ==
    onSuccessCalls' # onSuccessCalls => \E r \in Runs : NlpResponse(r, "valid")

\* State complete is entered from state processing, by a run that got an
\* intent with isValid = true.
CompleteFromProcessing ==
    (state' = "complete" /\ state # "complete")
      => /\ state = "processing"
         /\ \E r \in Runs : NlpResponse(r, "valid")

\* C17: an intent with isValid = false is never passed to onSuccess, its run
\* ends in state error with the validation errors as the message, and state
\* complete is reached only from processing and only with a valid intent.
C17_InvalidNeverExecuted ==
    [][InvalidNotExecuted /\ SuccessOnlyIfValid /\ CompleteFromProcessing]_vars

\* C17 without its last clause on the state complete is entered from.
C17_InvalidRejected == [][InvalidNotExecuted /\ SuccessOnlyIfValid]_vars

\* C17's last clause, for the steps of a hook no cancelRecording call is in
\* effect on.
C17_CompleteUncancelled == [][~cancelled => CompleteFromProcessing]_vars

\* /api/nlp answered a request whose language-model call failed.
AnsweredAfterAiFailure == nlp.pc = "responded" /\ nlp.ai \in AiFailures

Mentions(text, spellings) == \E k \in 1..Len(text) : text[k] \in spellings

\* The action the precedence of the fallback extractor gives a text.
ActionByPrecedence(text) ==
    IF \/ Mentions(text, {"Balance"})
       \/ \E k \in 1..(Len(text) - 1) : text[k] = "How" /\ text[k + 1] = "much"
      THEN "check_balance"
    ELSE IF Mentions(text, {"History", "transactions"}) THEN "view_history"
    ELSE IF Mentions(text, {"CANCEL"}) THEN "cancel"
    ELSE IF Mentions(text, {"Split"}) THEN "split"
    ELSE IF Mentions(text, {"Send", "transfer", "Pay"})
      THEN (IF Mentions(text, {"Bill"}) THEN "pay_bill" ELSE "send")
    ELSE "send"

\* C19: the fallback extractor classifies by the first rule that matches, in
\* the order balance / how much, history / transaction, cancel, split, send /
\* transfer / pay (pay_bill with bill), else send, whatever the case of the
\* keywords and whatever other keywords the text has; check_balance and
\* view_history have amount 0 and confirmationRequired = false, every other
\* result has confirmationRequired = true; originalCommand is the text as
\* given.
C19_FallbackPrecedence ==
    AnsweredAfterAiFailure
      => LET i == nlp.extracted
         IN /\ i.action = ActionByPrecedence(nlp.text)
            /\ i.action \in {"check_balance", "view_history"}
                 => (i.amount = Num(0, 0) /\ ~i.confirmationRequired)
            /\ i.action \notin {"check_balance", "view_history"} => i.confirmationRequired
            /\ i.originalCommand = nlp.text

\* A text with the keywords of three rules, in capitals, is classified by the
\* first of them.
C19_Witness ==
    /\ AnsweredAfterAiFailure
    /\ Mentions(nlp.text, {"Send"})
    /\ Mentions(nlp.text, {"CANCEL"})
    /\ Mentions(nlp.text, {"History"})
    /\ nlp.extracted.action = "view_history"

\* The fallback extractor answered for a text without the keywords of the
\* first three rules.
ParametersExtracted ==
    /\ AnsweredAfterAiFailure
    /\ nlp.extracted.action \in {"split", "send", "pay_bill"}

\* The amount is the first number of the text, or 0.
AmountIsFirstNumber ==
    LET t == nlp.text
        numbered == {k \in 1..Len(t) : NumberIn(t[k]) # <<>>}
    IN IF numbered = {} THEN nlp.extracted.amount = Num(0, 0)
       ELSE \E k \in numbered :
              /\ \A j \in numbered : k <= j
              /\ nlp.extracted.amount = NumberIn(t[k])[1]

\* The places of a text where 'with' or 'and' is followed by a word.
JoinPlaces(t) == {k \in 1..(Len(t) - 1) : t[k] \in {"with", "and"}}

\* The participants of a split are the words that follow the given places,
\* in the order of the places, without amount or address.
ParticipantsAre(places) ==
    LET t == nlp.text
        ps == nlp.extracted.participants
    IN /\ Len(ps) = Cardinality(places)
       /\ \A k \in places :
             ps[Cardinality({j \in places : j <= k})] = Participant(WordOf(t[k + 1]), NoAddress)

\* The places the matches of a left-to-right search start at: a place whose
\* 'with' or 'and' is the word an earlier match captured starts no match.
RECURSIVE MatchPlaces(_, _)
MatchPlaces(t, from) ==
    IF \A k \in JoinPlaces(t) : k < from THEN {}
    ELSE LET k == CHOOSE k \in JoinPlaces(t) :
                      k >= from /\ \A j \in JoinPlaces(t) : j >= from => k <= j
         IN {k} \cup MatchPlaces(t, k + 2)

\* The recipient of a send or pay_bill is the first 0x address of the text,
\* or else the word after the first 'to' or 'for' that a word follows.
RecipientIsAddressOrName ==
    LET t == nlp.text
        addressed == {k \in 1..Len(t) : t[k] \in HexAddresses}
        led == {k \in 1..(Len(t) - 1) : t[k] \in {"to", "for"}}
        first(S) == CHOOSE k \in S : \A j \in S : k <= j
    IN nlp.extracted.recipient =
         IF addressed # {} THEN AddressOf(t[first(addressed)])
         ELSE IF led # {} THEN Address(FALSE, WordOf(t[first(led) + 1]))
         ELSE NoAddress

\* An amount between the minimum and the maximum.
InBounds(a) == a.kind = "number" /\ a.th >= MinAmount /\ ~AboveMax(a)

\* The answer is a send to a 0x address of 40 hex digits with an amount in
\* bounds; it is a split with two participants and an amount in bounds.
SendToHexAddress ==
    /\ ParametersExtracted
    /\ nlp.extracted.action = "send"
    /\ nlp.extracted.recipient.prefix
    /\ nlp.extracted.recipient.body \in {"zeros", "digits", "checksummed", "badsum"}
    /\ InBounds(nlp.extracted.amount)

SplitInTwo ==
    /\ ParametersExtracted
    /\ nlp.extracted.action = "split"
    /\ Len(nlp.extracted.participants) = 2
    /\ InBounds(nlp.extracted.amount)

\* C20 as stated: the amount is the first number (0 if none); every 'with
\* <word>' and 'and <word>' of a split command is a participant, in order;
\* the recipient of a send is the 40-hex address or else the word after 'to'
\* or 'for'; a send to a 40-hex address and a split with two participants,
\* with an amount in bounds, are accepted by validatePaymentIntent.
C20_FallbackParameters ==
    ParametersExtracted
      => /\ AmountIsFirstNumber
         /\ nlp.extracted.action = "split" => ParticipantsAre(JoinPlaces(nlp.text))
         /\ nlp.extracted.action # "split" => RecipientIsAddressOrName
         /\ (SendToHexAddress \/ SplitInTwo) => nlp.res.intent.isValid

\* C20, amended: the participants are the matches of a left-to-right search
\* that do not overlap; the send and the split are accepted when the amount
\* has at most 6 decimal places and the address is one ethers.isAddress
\* accepts, other than the zero address.
C20_FallbackParametersAmended ==
    ParametersExtracted
      => /\ AmountIsFirstNumber
         /\ nlp.extracted.action = "split" => ParticipantsAre(MatchPlaces(nlp.text, 1))
         /\ nlp.extracted.action # "split" => RecipientIsAddressOrName
         /\ (/\ SendToHexAddress \/ SplitInTwo
             /\ DecimalPlaces(nlp.extracted.amount) <= maxDecimals
             /\ nlp.extracted.action = "send"
                  => nlp.extracted.recipient.body \in {"digits", "checksummed"})
              => nlp.res.intent.isValid

\* The split of the specification's example: 100 USDC with Bob and Charlie,
\* accepted.
C20_Witness ==
    /\ SplitInTwo
    /\ nlp.text = <<"Split", "100", "USDC", "with", "Bob", "and", "Charlie">>
    /\ nlp.extracted.amount = Num(100000, 0)
    /\ nlp.extracted.participants =
          <<Participant("Bob", NoAddress), Participant("Charlie", NoAddress)>>
    /\ nlp.res.intent.isValid

(***************************************************************************)
(* The claims about the utilities.                                         *)
(***************************************************************************)

\* C21: retryWithBackoff returns the result of the first fn call that
\* succeeds and calls fn no more after it; when every call fails it has made
\* the initial attempt and maxRetries retries, and throws the error of the
\* last of them.
C21_BoundedRetry ==
    /\ retry.pc = "returned" => retry.result = retry.calls
    /\ retry.pc = "threw"
         => /\ retry.calls = 1 + retry.maxRetries
            /\ retry.thrown = retry.calls

\* What holds of the loop: at most maxRetries calls of fn, the delay doubled
\* from one sleep to the next, a result only from the last call made.
C21_AtMostMaxRetriesCalls ==
    /\ retry.calls <= retry.maxRetries
    /\ retry.pc = "threw" => retry.calls = retry.maxRetries /\ retry.thrown = retry.lastError
    /\ retry.pc = "returned" => retry.result = retry.calls
    /\ \A k \in 1..Len(retry.slept) : retry.slept[k] = retry.delay * Pow2(k - 1)

\* The decimal value of the amount a call was made with is a number.
Numeric(call) == call.balance.kind = "number" /\ call.amount.kind = "number"

\* C23: with the gas buffer validateSufficientBalance returns sufficient
\* exactly when balance >= amount + 0.01, without it exactly when balance >=
\* amount; a non-numeric balance or amount gives insufficient with an error.
C23_SufficiencyBoundary ==
    sufficiency.pc = "returned"
      => IF Numeric(sufficiency)
           THEN sufficiency.result.sufficient
                  <=> sufficiency.balance.th >=
                        sufficiency.amount.th
                          + (IF sufficiency.includeGasBuffer THEN SafetyBuffer ELSE 0)
           ELSE ~sufficiency.result.sufficient /\ sufficiency.result.error # ""

\* The two examples of the specification, the calls without the buffer and
\* the non-numeric arguments.
C23_ExamplesHold ==
    sufficiency.pc = "returned"
      => /\ (sufficiency.balance = Parsed(100000) /\ sufficiency.includeGasBuffer)
              => /\ sufficiency.amount = Parsed(99995) => ~sufficiency.result.sufficient
                 /\ sufficiency.amount = Parsed(99980) => sufficiency.result.sufficient
         /\ (Numeric(sufficiency) /\ ~sufficiency.includeGasBuffer)
              => (sufficiency.result.sufficient
                    <=> sufficiency.balance.th >= sufficiency.amount.th)
         /\ ~Numeric(sufficiency)
              => ~sufficiency.result.sufficient /\ sufficiency.result.error # ""

(***************************************************************************)
(* The claims about the auto-retry of the hook.                            *)
(***************************************************************************)

\* The pipeline runs the auto-retry timeout started (every run but the
\* first), and the auto-retry timeouts that are pending.
AutoRuns == IF nRuns = 0 THEN 0 ELSE nRuns - 1
PendingRetries ==
    LET RECURSIVE Sum(_)
        Sum(t) == IF t < 0 THEN 0 ELSE retryTimers[t] + Sum(t - 1)
    IN Sum(MaxSessions)

\* The sample is processed again automatically, or about to be, at most
\* maxRetries times.
RetriesBounded == AutoRuns + PendingRetries <= maxRetries

\* C22: with auto-retry on, a sample is processed again automatically at
\* most maxRetries times and then no further attempt is scheduled; and
\* whatever the outcome, when the gateway answers and the timers fire, a
\* mounted hook in state processing leaves it and its state returns to idle.
C22_BoundedProcessing ==
    /\ []RetriesBounded
    /\ (mounted /\ state = "processing") ~> (~mounted \/ state # "processing")
    /\ (mounted /\ state = "processing") ~> (~mounted \/ state = "idle")

\* Every attempt failed and the retries are exhausted: the sample was
\* processed maxRetries times by the timeout, nothing is pending, and the
\* state is idle again.
C22_Witness ==
    /\ mounted
    /\ AutoRuns = maxRetries
    /\ maxRetries > 0
    /\ \A r \in 1..nRuns : run[r].pc = "done"
    /\ onErrorCalls = 1 + maxRetries
    /\ onSuccessCalls = 0
    /\ PendingRetries = 0
    /\ idleTimers = 0
    /\ state = "idle"

(***************************************************************************)
(* The claims about the failures of the ledger.                            *)
(***************************************************************************)

\* The class of failure an error message names to the caller.
LedgerClass(msg) ==
    CASE msg = "Insufficient funds for gas" -> "InsufficientFunds"
      [] msg \in {"Insufficient USDC balance",
                  "Transaction failed: Insufficient USDC balance"} -> "InsufficientBalance"
      [] msg = "Transaction reverted" -> "TransactionReverted"
      [] msg \in {"Transaction failed: rejected",
                  "Transaction confirmation failed"} -> "TransactionFailed"
      [] OTHER -> "none"

\* A step in which the ledger fails call k.
LedgerFails(k) ==
    \/ \E o \in {"insufficient", "rejected", "noGas"} : SendUSDCTransfer(k, o)
    \/ \E o \in {"reverted", "failed", "lost"} : WaitForTransaction(k, o)

\* The failing step ends the call with an error and reports no success.
FailsWithoutSuccess(k) ==
    /\ tx'[k].pc = "done"
    /\ tx'[k].reported # "none"
    /\ page'.success = page.success
    /\ page'.transactions = page.transactions

\* C24: lack of native funds, lack of token balance, a reverted transfer and
\* any other failure of the ledger reach the caller of sendUSDC and
\* waitForTransaction as errors of four different classes, the revert as
\* reverted and the balance found too low before the transfer as insufficient
\* balance; and no failure of the ledger ends as a success.
C24_LedgerFailuresClassified ==
    [][\A k \in TxIds :
         /\ SendUSDCTransfer(k, "noGas")
              => LedgerClass(tx'[k].reported) = "InsufficientFunds"
         /\ SendUSDCTransfer(k, "insufficient")
              => LedgerClass(tx'[k].reported) = "InsufficientBalance"
         /\ WaitForTransaction(k, "reverted")
              => LedgerClass(tx'[k].reported) = "TransactionReverted"
         /\ (SendUSDCTransfer(k, "rejected") \/ WaitForTransaction(k, "failed"))
              => LedgerClass(tx'[k].reported) = "TransactionFailed"
         /\ LedgerFails(k) => FailsWithoutSuccess(k)]_vars

\* What holds: the failures of sendUSDC are told apart, every failure of the
\* wait is reported as a failed confirmation, and none ends as a success.
C24_SendFailuresClassified ==
    [][\A k \in TxIds :
         /\ SendUSDCTransfer(k, "noGas")
              => LedgerClass(tx'[k].reported) = "InsufficientFunds"
         /\ SendUSDCTransfer(k, "insufficient")
              => LedgerClass(tx'[k].reported) = "InsufficientBalance"
         /\ (\E o \in {"reverted", "failed", "lost"} : WaitForTransaction(k, o))
              => tx'[k].reported = "Transaction confirmation failed"
         /\ SendUSDCTransfer(k, "rejected")
              => LedgerClass(tx'[k].reported) = "TransactionFailed"
         /\ LedgerFails(k) => FailsWithoutSuccess(k)]_vars

(***************************************************************************)
(* The claims about the balance refresh of the wallet hook.                *)
(***************************************************************************)

\* While the wallet is connected the refresh interval is armed.
ArmedWhileConnected ==
    (wallet.isConnected /\ autoRefreshInterval > 0) => wallet.intervalArmed

\* A tick of the interval starts a read of the balance from the ledger.
TickRefreshes == IntervalTick => wallet'.pendingRefresh = wallet.pendingRefresh + 1

\* A transfer of the hook that is confirmed while the hook holds its service
\* is followed by a refresh of the balance.
ConfirmedRefreshes ==
    \A k \in TxIds :
        (WaitForTransaction(k, "confirmed") /\ tx[k].via = "wallet"
           /\ wallet.arcServiceRef # 0)
          => tx'[k].pc = "reloading"

\* C25: while the wallet is connected with autoRefreshInterval > 0 the
\* balance is refreshed at every tick of the interval, which stays armed
\* until disconnect, and it is refreshed after every confirmed transaction.
C25_PeriodicRefresh ==
    []ArmedWhileConnected /\ [][TickRefreshes /\ ConfirmedRefreshes]_vars

\* What holds of C25: the refresh after a confirmed transaction.
C25_RefreshAfterConfirmation == [][ConfirmedRefreshes]_vars

\* The hook as disconnect leaves it.
TornDown ==
    /\ ~wallet.isConnected
    /\ wallet.address = 0
    /\ wallet.balance = <<>>
    /\ wallet.arcServiceRef = 0

\* C26: after disconnect no refresh interval is armed, and until connect is
\* called again no callback sets address, balance or isConnected: the hook
\* stays disconnected with address and balance null.
C26_TeardownCancels ==
    /\ [](TornDown => ~wallet.intervalArmed)
    /\ [][TornDown => (Connect \/ (TornDown' /\ ~wallet'.intervalArmed))]_vars

\* What holds of C26: disconnect itself leaves no interval armed and the
\* hook disconnected.
C26_DisconnectClears == [][Disconnect => (TornDown' /\ ~wallet'.intervalArmed)]_vars

\* A balance read of refreshBalance or of loadBalance, started by the
\* interval or by the user, resolves and writes the balance state.
RefreshWrites == RefreshDone(TRUE) \/ PageLoadDone(TRUE)

\* C27: while a submission is in flight, between the transfer call and the
\* end of the confirmation wait, no balance refresh, periodic or manual,
\* writes the balance state of the hook or of the page.
C27_NoRefreshWriteInFlight ==
    [][(\E k \in TxIds : InFlight(k)) => ~RefreshWrites]_vars


(***************************************************************************)
(* The claim about a failed microphone acquisition.                        *)
(***************************************************************************)

\* The rejections of getUserMedia the claim names: permission denied,
\* device not found, device busy.
AcquisitionFailures == {"NotAllowedError", "NotFoundError", "NotReadableError"}

\* What the step that handles the rejection leaves behind in the component.
MicFailureHandled(name) ==
    /\ voiceRecorder'.state = "error"
    /\ voiceRecorder'.onError = MicErrorMessage(name)
    /\ voiceRecorder'.onErrorCalls = voiceRecorder.onErrorCalls + 1
    /\ ~voiceRecorder'.stream
    /\ ~voiceRecorder'.timer
    /\ voiceRecorder'.resetTimers = voiceRecorder.resetTimers + 1

\* C28: when the acquisition of the microphone fails with permission denied,
\* device not found or device busy, startRecording ends in state error with
\* the distinct message of that failure, reports it through onError, holds
\* no audio resource, has never entered listening, and has armed the timer
\* that returns the state to idle after the display delay.
C28_MicFailureHandled ==
    [][\A name \in AcquisitionFailures :
          RecorderMicRejected(name) => MicFailureHandled(name)]_vars

\* The same for the startRecording of the useVoice hook, while it is mounted.
C28_HookMicFailureHandled ==
    [][\A s \in Sessions, name \in AcquisitionFailures :
          (mounted /\ MicRejected(s, name)) =>
              /\ state' = "error"
              /\ error' = MicErrorMessage(name)
              /\ onErrorCalls' = onErrorCalls + 1
              /\ ~sess'[s].stream /\ ~sess'[s].timer /\ sess'[s].recorder = "none"
              /\ streamRef' = 0 /\ recordingTimerRef' = 0
              /\ idleTimers' = idleTimers + 1]_vars


(***************************************************************************)
(* The claim about the history entries of finished runs.                   *)
(***************************************************************************)

\* Run r fails in this step: its transcription or its intent extraction
\* answered with a failure, or the intent it extracted is invalid.
RunFails(r) ==
    \/ \E outcome \in VoiceOutcomes \ {"ok"} : VoiceResponse(r, outcome)
    \/ \E outcome \in NlpOutcomes \ {"valid"} : NlpResponse(r, outcome)

\* This step appends exactly the entry e to the history.
Appends(e) == historyLog' = Append(historyLog, e)

\* C29: while the hook is mounted, every pipeline failure (transcription
\* error, no speech detected, intent-extraction error, invalid intent) sets
\* an error message and appends one history entry with success = FALSE and
\* a null intent, and every success appends exactly one entry with
\* success = TRUE carrying the transcript and the intent of that run.
C29_FinishedRunsRecorded ==
    [][\A r \in Runs :
          /\ (mounted /\ RunFails(r)) =>
                /\ error' # "none"
                /\ \E t \in 0..MaxHistoryRuns :
                       Appends([id |-> r, transcript |-> t, intent |-> 0,
                                success |-> FALSE])
          /\ (mounted /\ NlpResponse(r, "valid")) =>
                Appends([id |-> r, transcript |-> run[r].text,
                         intent |-> run[r].text, success |-> TRUE])]_vars

\* The half of it that the code keeps: a successful run appends exactly one
\* entry with success = TRUE, its transcript and its intent.
C29_SuccessRecorded ==
    [][\A r \in Runs :
          (mounted /\ NlpResponse(r, "valid")) =>
              Appends([id |-> r, transcript |-> run[r].text,
                       intent |-> run[r].text, success |-> TRUE])]_vars


(***************************************************************************)
(* The claim about the confirmed Transaction record.                       *)
(***************************************************************************)

\* The transaction of call k is in the page's list.
Recorded(k) == \E i \in 1..Len(page.transactions) : page.transactions[i] = k

\* The page reports the success of a transfer.
SuccessReported(P) == P.success # <<>> /\ P.success[1] = "sent"

\* The wait for the confirmation of call k returns its receipt in this step.
WaitReturns(k) == tx[k].pc = "waiting" /\ tx'[k].pc = "reloading"

\* The list of the page changes only by the transaction whose wait returns.
RecordedOnReturn ==
    page'.transactions # page.transactions =>
        \E k \in TxIds : /\ tx[k].via = "page"
                         /\ WaitReturns(k)
                         /\ page'.transactions = <<k>> \o page.transactions

\* The balance reload of the send handler starts only when the wait returns.
ReloadOnReturn ==
    \A k \in TxIds :
        (tx[k].pc # "reloading" /\ tx'[k].pc = "reloading") => WaitReturns(k)

\* Success is reported only for a recorded transaction whose reload ended.
SuccessAfterRecord ==
    (SuccessReported(page') /\ page'.success # page.success) =>
        \E k \in TxIds : /\ tx[k].pc = "reloading"
                         /\ Recorded(k)
                         /\ page'.success = <<"sent", tx[k].amount>>

\* A call that fails in this step adds no record and reports no success.
FailureAddsNothing ==
    \A k \in TxIds :
        (tx[k].reported = "none" /\ tx'[k].reported # "none") =>
            /\ page'.transactions = page.transactions
            /\ page'.success \in {page.success, <<>>}

AutoStopDue(s) ==
    mounted /\ sess[s].recorder = "recording" /\ sess[s].stream /\ AutoStopFire(s)

\* C31: when maxRecordingDuration has elapsed for a session that is still
\* recording, its auto-stop timer stops it, so that no recording outlasts
\* maxRecordingDuration; and the timer of one session never stops the
\* recorder of another session.
C31_AutoStop ==
    [][\A s \in Sessions :
          /\ AutoStopDue(s) => sess'[s].recorder # "recording"
          /\ AutoStopFire(s) =>
                \A t \in Sessions \ {s} : sess'[t].recorder = sess[t].recorder]_vars

\* The half of it that the hook keeps: the timer of one session never stops
\* the recorder of another.
C31_OwnSessionOnly ==
    [][\A s \in Sessions :
          AutoStopFire(s) =>
              \A t \in Sessions \ {s} : sess'[t].recorder = sess[t].recorder]_vars


(***************************************************************************)
(* The claim about the actions that can reach the ledger.                  *)
(***************************************************************************)

\* sendUSDC has been called for call k of the page.
SendUSDCCalled(k) ==
    tx[k].via = "page" /\ (tx[k].pc \in {"sendUSDC", "waiting", "reloading"} \/ Transferred(k))

\* C32: only an intent with action = send leads to a call of sendUSDC;
\* split, pay_bill, request and cancel intents are answered as unsupported
\* and never reach sendUSDC, whatever their confirmationRequired flag is.
C32_OnlySendExecutes ==
    /\ \A k \in TxIds :
          SendUSDCCalled(k) => cmd[tx[k].cmd].intent.action = "send"
    /\ \A c \in CmdIds :
          cmd[c].intent.action \in {"split", "pay_bill", "request", "cancel"}
            => cmd[c].handled = "unsupported"

\* The half of it that the code keeps: handleVoiceCommandProcessed itself
\* answers every such intent as unsupported.
C32_AnsweredUnsupported ==
    \A c \in CmdIds :
        cmd[c].intent.action \in {"split", "pay_bill", "request", "cancel"}
          => cmd[c].handled = "unsupported"


(***************************************************************************)
(* The claim about the order of transcription and intent extraction.       *)
(***************************************************************************)

\* The handler answered the request of run r with success and a transcript.
Transcribed(r) ==
    voiceApi[r].status = 200 /\ voiceApi[r].success /\ voiceApi[r].transcript # 0

\* Intent extraction is invoked for a run only after its transcription
\* succeeded.
NlpAfterTranscript == \A r \in Runs : run[r].pc = "nlp" => Transcribed(r)

\* The handler reports an empty result as NO_SPEECH_DETECTED and a failure
\* of the service as an error, never as a success, and calls the service at
\* most once for a request.
HandlerReports ==
    \A r \in Runs :
        /\ voiceApi[r].service = "empty" =>
              /\ voiceApi[r].errorCode = "NO_SPEECH_DETECTED"
              /\ ~voiceApi[r].success
              /\ voiceApi[r].status = 400
        /\ voiceApi[r].service \in {"noKey", "rateLimit", "timeout", "failure"} =>
              /\ ~voiceApi[r].success
              /\ voiceApi[r].status >= 400
              /\ voiceApi[r].errorCode \notin {"", "NO_SPEECH_DETECTED"}
        /\ voiceApi[r].transcribeCalls <= 1

\* A run whose transcription did not succeed ends in error in the step that
\* delivers the answer, without a request to /api/nlp.
FailedRunEnds ==
    \A r \in Runs :
        (mounted /\ ~Transcribed(r) /\ (VoiceDelivered(r) \/ VoiceUnreachable(r))) =>
            /\ state' = "error"
            /\ error' # "none"
            /\ run'[r] = DoneRun

\* C33: within one run /api/nlp is invoked only after /api/voice returned
\* success with a non-empty transcript; an empty transcription result is
\* reported as NO_SPEECH_DETECTED and a service failure as an error, never as
\* success; in both cases the run ends in error without invoking intent
\* extraction; and the handler calls the speech service once, with no retry.
C33_PipelineOrdering ==
    /\ []NlpAfterTranscript
    /\ []HandlerReports
    /\ [][FailedRunEnds]_vars

\* C33 witness: the service returned no text for a run, the handler answered
\* NO_SPEECH_DETECTED after one call, and the run has ended in error.
C33_Witness ==
    \E r \in Runs :
        /\ voiceApi[r].service = "empty"
        /\ voiceApi[r].transcribeCalls = 1
        /\ run[r] = DoneRun
        /\ state = "error"
        /\ error = "noSpeech"


(***************************************************************************)
(* The claim about the waits of retryWithBackoff.                          *)
(***************************************************************************)

\* The number of waits a call of retryWithBackoff has made or begun: one
\* after every failed attempt but the final one.
WaitsDue ==
    CASE retry.pc = "sleep" -> retry.calls
      [] retry.pc = "fn" -> retry.calls
      [] retry.pc \in {"returned", "threw"} /\ retry.calls > 0 -> retry.calls - 1
      [] OTHER -> 0

\* C34: the wait between failed attempt i (counted from 0) and the next
\* attempt is delay * 2^i, and there is no wait after the final failed
\* attempt.
C34_BackoffSchedule ==
    /\ Len(retry.slept) = WaitsDue
    /\ \A j \in 1..Len(retry.slept) : retry.slept[j] = retry.delay * Pow2(j - 1)

\* C34 witness: three attempts failed, the waits were delay and 2 * delay,
\* and the last error was thrown with no third wait.
C34_Witness ==
    /\ retry.pc = "threw"
    /\ retry.calls = 3
    /\ retry.slept = <<retry.delay, 2 * retry.delay>>


(***************************************************************************)
(* The claim about the state of a session and the timers of earlier ones.  *)
(***************************************************************************)

\* The recorder of session s is the one the hook holds and is recording
\* from a live stream.
ActivelyRecording(s) ==
    sess[s].recorder = "recording" /\ sess[s].stream /\ mediaRecorderRef = s

\* Session s is waiting for the microphone or recording.
SessionInProgress(s) == sess[s].pc = "acquiring" \/ ActivelyRecording(s)

\* A delayed reset or a pending auto-retry fires in this step.
DelayedTimerFires == IdleTimerFire \/ \E t \in 0..MaxSessions : RetryTimerFire(t)

\* A timer that fires while a session is requesting or listening leaves the
\* state alone.
TimersSpareSession ==
    (/\ mounted
     /\ state \in {"requesting", "listening"}
     /\ \E s \in Sessions : SessionInProgress(s)
     /\ DelayedTimerFires) => state' = state

\* C35: while the hook is mounted, whenever its recorder is actively
\* recording the state is listening; and a delayed reset or an auto-retry
\* timer scheduled earlier never changes the state of a session that is
\* requesting or listening.
C35_StateMatchesRecorder ==
    /\ []((mounted /\ \E s \in Sessions : ActivelyRecording(s)) => state = "listening")
    /\ [][TimersSpareSession]_vars

\* The second half alone.
C35_TimersSpareSession == [][TimersSpareSession]_vars


(***************************************************************************)
(* The claim about concurrent pipeline runs.                               *)
(***************************************************************************)

\* The processAudioBlob runs that await a response.
RunsInFlight == {r \in Runs : run[r].pc \in {"voice", "nlp"}}

\* C36: under any interleaving of the recorder's stop, the retry() action
\* and the auto-retry timer, at most one processAudioBlob run is in flight
\* at any time.
C36_OneRunAtATime == Cardinality(RunsInFlight) <= 1


(***************************************************************************)
(* The claim about the wallet state the command handlers act on.           *)
(***************************************************************************)

\* The wallet service has been initialized and a balance has been loaded.
WalletReady == page.arcService # 0 /\ page.balance # 0

\* What the dispatch of intent i must leave behind on a ready wallet.
ActsOnCurrentWallet(i) ==
    /\ i.action = "check_balance" =>
          /\ page'.success = <<"balance", page.balance>>
          /\ page'.pendingLoads = page.pendingLoads + 1
    /\ (i.action = "send" /\ ~i.confirmationRequired) =>
          page'.error # "Wallet not initialized"

\* C37: when handleVoiceCommandProcessed dispatches a command after the
\* wallet has been initialized and a balance loaded, check_balance announces
\* the balance loaded last and starts a reload, and a send that needs no
\* confirmation is executed against the initialized service and does not
\* fail as 'Wallet not initialized'.
C37_HandlersSeeCurrentWallet ==
    [][\A i \in DeliveredIntents :
          (WalletReady /\ HandleVoiceCommandProcessed(i)) => ActsOnCurrentWallet(i)]_vars


(***************************************************************************)
(* The claim about the window of the rate limiter.                         *)
(***************************************************************************)

\* The window of the entry stored for an identifier has not ended.
WindowOpen(id) ==
    rateLimit.map[id] # NoEntry /\ rateLimit.now <= rateLimit.map[id].resetTime

\* In every state: at most maxRequests calls were allowed in a window, the
\* stored count is that number and never exceeds maxRequests, a refusal
\* leaves remaining = 0, and an allowed call leaves maxRequests - count.
LimiterCounts ==
    /\ \A id \in Identifiers :
          /\ rateLimit.granted[id].n <= rateLimit.maxRequests
          /\ rateLimit.map[id].count <= rateLimit.maxRequests
          /\ rateLimit.map[id] # NoEntry =>
                /\ rateLimit.map[id].resetTime = rateLimit.granted[id].resetTime
                /\ rateLimit.map[id].count = rateLimit.granted[id].n
    /\ LET res == rateLimit.result
       IN /\ res.remaining >= 0
          /\ (res.identifier # "none" /\ ~res.allowed) => res.remaining = 0
          /\ (res.identifier # "none" /\ res.allowed) =>
                res.remaining = rateLimit.maxRequests - rateLimit.map[res.identifier].count

\* What one call does: in a full open window it is refused; after resetTime
\* has passed it starts a new window with count 1; and it leaves the entries
\* of the other identifiers alone.
LimiterStep ==
    \A id \in Identifiers :
        CheckRateLimit(id) =>
            /\ (WindowOpen(id) /\ rateLimit.map[id].count = rateLimit.maxRequests) =>
                  /\ ~rateLimit'.result.allowed
                  /\ rateLimit'.result.remaining = 0
                  /\ rateLimit'.map[id] = rateLimit.map[id]
            /\ (rateLimit.map[id] # NoEntry /\ ~WindowOpen(id)) =>
                  /\ rateLimit'.result.allowed
                  /\ rateLimit'.map[id] =
                         [count |-> 1, resetTime |-> rateLimit.now + rateLimit.windowMs]
            /\ \A other \in Identifiers \ {id} :
                  rateLimit'.map[other] = rateLimit.map[other]

\* C38: within one window at most maxRequests calls for an identifier are
\* allowed and every further call in it is refused with remaining = 0; the
\* stored count never exceeds maxRequests and remaining is maxRequests -
\* count, never negative; the first call after resetTime has passed starts a
\* new window with count 1; the counters of different identifiers are
\* independent.
C38_RateLimitWindow == []LimiterCounts /\ [][LimiterStep]_vars

\* C38 witness: with maxRequests = 2, identifier a is in a window that began
\* after time 0, two of its calls were allowed and the last one was refused
\* with remaining = 0; identifier b is in a later window with count 1.
C38_Witness ==
    /\ rateLimit.maxRequests = 2
    /\ rateLimit.result = [identifier |-> "a", allowed |-> FALSE, remaining |-> 0,
                           resetTime |-> rateLimit.map["a"].resetTime]
    /\ rateLimit.map["a"].count = 2
    /\ rateLimit.map["b"].count = 1
    /\ rateLimit.map["b"].resetTime > rateLimit.map["a"].resetTime
    /\ rateLimit.map["a"].resetTime >= rateLimit.windowMs + 1

====
